---- MODULE Spec2Model ----
(***************************************************************************)
(* A model of the cryptoforge RSA library: the number-theory primitives    *)
(* (utils/math.py), the byte/base64/text conversions (utils/encoding.py),  *)
(* the PKCS#1 padding codec (crypto/padding.py), the primality test        *)
(* (crypto/prime.py), the key pair (core/keypair.py) and the engine        *)
(* (engine/rsa.py).                                                         *)
(*                                                                         *)
(* Python's int is unbounded and an RSA block is at least 11 bytes wide,   *)
(* so integers are modelled as byte strings: a natural number is the       *)
(* big-endian sequence of its base-256 digits without leading zeros        *)
(* (zero is <<>>), and the arithmetic of the source (+, -, *, //, %, >>)   *)
(* is computed on these digit strings.  A bytes object is a sequence of    *)
(* 0..255, a str is a sequence of code points.                             *)
(*                                                                         *)
(* A function that may raise returns [ok |-> TRUE, val |-> v] or           *)
(* [ok |-> FALSE, val |-> <the error kind>].                               *)
(***************************************************************************)
EXTENDS Integers, Sequences, FiniteSets, TLC

VARIABLES
  key_pair,     \* RSAEngine._key_pair: None or Some(an RSAKeyPair)
  session_id,   \* RSAEngine._session_id
  call,         \* the last call made on the library: its inputs and its result
  held,         \* what the caller keeps of earlier results: None or Some(record)
  engine_b,     \* _key_pair of a second RSAEngine of the same process
  random_state, \* the generator of the module `random`, one per process
  random_alone  \* random_state had the calls on the first engine not been made

\* what lies outside the first engine and its caller
elsewhere == <<engine_b, random_state, random_alone>>

vars == <<key_pair, session_id, call, held, elsewhere>>

-----------------------------------------------------------------------------
(* Loops.  A Python for/while loop threading a state through its           *)
(* iterations is Iter; the state of each half is computed before the next  *)
(* half starts (the bound r_/h_ names force that order), which keeps the   *)
(* evaluation depth logarithmic in the number of iterations.               *)

RECURSIVE Iter(_, _, _, _)
Iter(Step(_, _), s, lo, hi) ==
  IF lo > hi THEN s
  ELSE IF lo = hi THEN Step(s, lo)
  ELSE LET mid == (lo + hi) \div 2
       IN CHOOSE r_ \in {Iter(Step, h_, mid + 1, hi) :
                           h_ \in {Iter(Step, s, lo, mid)}} : TRUE

RECURSIVE Sum(_, _, _)
Sum(F(_), lo, hi) ==
  IF lo > hi THEN 0
  ELSE IF lo = hi THEN F(lo)
  ELSE LET mid == (lo + hi) \div 2
       IN Sum(F, lo, mid) + Sum(F, mid + 1, hi)

Max(a, b) == IF a > b THEN a ELSE b
Min(a, b) == IF a < b THEN a ELSE b

\* Optional[T]: None, or Some(v) whose value is v[1]
None == <<>>
Some(v) == <<v>>
Ok(v) == [ok |-> TRUE, val |-> v]
Err(kind) == [ok |-> FALSE, val |-> kind]

-----------------------------------------------------------------------------
(* Python int arithmetic on digit strings.                                 *)

\* the digit of weight 256^p
Digit(a, p) == IF p < Len(a) THEN a[Len(a) - p] ELSE 0

\* s from its first nonzero digit on
StripZeros(s) ==
  IF s = <<>> THEN s
  ELSE IF s[1] # 0 THEN s
  ELSE LET from(nz) == IF nz = 0 THEN <<>> ELSE SubSeq(s, nz, Len(s))
       IN from(Iter(LAMBDA st, i: IF st = 0 /\ s[i] # 0 THEN i ELSE st,
                    0, 1, Len(s)))

\* columns col[0..m-1] of any integers, weight 256^p each, brought to digits;
\* c is the carry out of the top column (negative: the value is negative)
Carry(col, m) ==
  Iter(LAMBDA st, p: LET v == col[p] + st.c
                     IN [c |-> v \div 256, out |-> <<v % 256>> \o st.out],
       [c |-> 0, out |-> <<>>], 0, m - 1)

IntToBig(k) ==
  StripZeros(<<(k \div 16777216) % 256, (k \div 65536) % 256,
               (k \div 256) % 256, k % 256>>)

\* the value of the k most significant digits of a (k <= 3)
Lead(a, k) ==
  IF k <= 0 THEN 0
  ELSE IF k = 1 THEN a[1]
  ELSE IF k = 2 THEN a[1] * 256 + a[2]
  ELSE a[1] * 65536 + a[2] * 256 + a[3]

\* a digit string of at most 3 digits as a number
BigToInt(a) == Lead(a, Len(a))

BigCmp(a, b) ==
  IF Len(a) # Len(b) THEN (IF Len(a) < Len(b) THEN -1 ELSE 1)
  ELSE Iter(LAMBDA st, i: IF st # 0 THEN st
                          ELSE IF a[i] < b[i] THEN -1
                          ELSE IF a[i] > b[i] THEN 1 ELSE 0,
            0, 1, Len(a))

BigLess(a, b) == BigCmp(a, b) < 0

BigAdd(a, b) ==
  LET col(m) == [p \in 0..(m - 1) |-> Digit(a, p) + Digit(b, p)]
      sum(m) == Carry(col(m), m).out
  IN StripZeros(sum(Max(Len(a), Len(b)) + 1))

\* a - q*b for a small q, as Carry gives it
SubMul(a, b, q) ==
  LET col(m) == [p \in 0..(m - 1) |-> Digit(a, p) - q * Digit(b, p)]
      diff(m) == Carry(col(m), m)
  IN diff(Max(Len(a), Len(b)) + 1)

\* a - b for a >= b
BigSub(a, b) == StripZeros(SubMul(a, b, 1).out)

BigMul(a, b) ==
  IF a = <<>> \/ b = <<>> THEN <<>>
  ELSE LET col(m) == [p \in 0..(m - 1) |->
                        Sum(LAMBDA i: Digit(a, i) * Digit(b, p - i),
                            Max(0, p - Len(b) + 1), Min(p, Len(a) - 1))]
           product(m) == Carry(col(m), m).out
       IN StripZeros(product(Len(a) + Len(b)))

\* the estimate of t // n from the leading digits of t and n, for
\* 0 <= t < 256*n and Len(t) >= Len(n): never too small
DivEstimate(t, n) ==
  LET k == Min(Len(n), 2)
  IN Min(255, Lead(t, Len(t) - (Len(n) - k)) \div Lead(n, k))

\* the estimate q with r = t - q*n, lowered until r >= 0
RECURSIVE DivCorrect(_, _, _, _)
DivCorrect(t, n, q, r) ==
  IF r.c >= 0 THEN [q |-> q, r |-> StripZeros(r.out)]
  ELSE DivCorrect(t, n, q - 1, SubMul(t, n, q - 1))

\* one step of long division: for 0 <= t < 256*n, [q, r] with t = q*n + r
DivStep(t, n) ==
  IF Len(t) < Len(n) THEN [q |-> 0, r |-> t]
  ELSE LET from(q) == DivCorrect(t, n, q, SubMul(t, n, q))
       IN from(DivEstimate(t, n))

\* a // n and a % n for n > 0: long division, one digit of a at a time
BigDivMod(a, n) ==
  LET bring(r, digit) == IF r = <<>> /\ digit = 0 THEN <<>> ELSE Append(r, digit)
      put(st, d) == [q |-> Append(st.q, d.q), r |-> d.r]
      divide(first) ==
        Iter(LAMBDA st, i: put(st, DivStep(bring(st.r, a[i]), n)),
             [q |-> <<>>, r |-> StripZeros(SubSeq(a, 1, first))],
             first + 1, Len(a))
      stripped(s) == [q |-> StripZeros(s.q), r |-> s.r]
  IN stripped(divide(Min(Len(a), Len(n) - 1)))

BigMod(a, n) == BigDivMod(a, n).r
BigDiv(a, n) == BigDivMod(a, n).q

BigIsOdd(a) == a # <<>> /\ a[Len(a)] % 2 = 1

\* a >> 1
BigHalf(a) ==
  StripZeros([i \in 1..Len(a) |->
                (a[i] \div 2) + 128 * ((IF i = 1 THEN 0 ELSE a[i - 1]) % 2)])

\* int.bit_length()
BitLength(a) ==
  IF a = <<>> THEN 0
  ELSE LET top == a[1]
           bits == IF top >= 128 THEN 8 ELSE IF top >= 64 THEN 7
                   ELSE IF top >= 32 THEN 6 ELSE IF top >= 16 THEN 5
                   ELSE IF top >= 8 THEN 4 ELSE IF top >= 4 THEN 3
                   ELSE IF top >= 2 THEN 2 ELSE 1
       IN 8 * (Len(a) - 1) + bits

-----------------------------------------------------------------------------
(* Signed Python ints, where the source computes with negative values      *)
(* (the Bezout coefficients): [neg, mag], zero being [FALSE, <<>>].        *)

SInt(neg, mag) == [neg |-> neg /\ mag # <<>>, mag |-> mag]
SPos(mag) == SInt(FALSE, mag)

SAdd(x, y) ==
  IF x.neg = y.neg THEN SInt(x.neg, BigAdd(x.mag, y.mag))
  ELSE IF BigCmp(x.mag, y.mag) >= 0 THEN SInt(x.neg, BigSub(x.mag, y.mag))
  ELSE SInt(y.neg, BigSub(y.mag, x.mag))

SSub(x, y) == SAdd(x, SInt(~y.neg, y.mag))

SMul(x, y) == SInt(x.neg # y.neg, BigMul(x.mag, y.mag))

\* Python's // and %: the quotient is rounded down, the remainder has the
\* sign of the divisor
SDivMod(x, y) ==
  LET floor(d) ==
        IF x.neg = y.neg THEN [q |-> SPos(d.q), r |-> SInt(y.neg, d.r)]
        ELSE IF d.r = <<>> THEN [q |-> SInt(TRUE, d.q), r |-> SPos(<<>>)]
        ELSE [q |-> SInt(TRUE, BigAdd(d.q, <<1>>)),
              r |-> SInt(y.neg, BigSub(y.mag, d.r))]
  IN floor(BigDivMod(x.mag, y.mag))

\* a call that raised is passed on, a call that returned is continued
Bind(r, F(_)) == IF r.ok THEN F(r.val) ELSE r

-----------------------------------------------------------------------------
(* Loops whose number of iterations the data decides: `while cond: body`,  *)
(* with an upper bound on the iterations.  As in Iter, each half is        *)
(* computed before the next starts.                                        *)

RECURSIVE While(_, _, _, _)
While(Cond(_), Body(_), s, fuel) ==
  IF fuel <= 0 THEN s
  ELSE IF ~Cond(s) THEN s
  ELSE IF fuel = 1 THEN Body(s)
  ELSE CHOOSE r_ \in {While(Cond, Body, h_, fuel - (fuel \div 2)) :
                        h_ \in {While(Cond, Body, s, fuel \div 2)}} : TRUE

-----------------------------------------------------------------------------
(* utils/math.py                                                           *)

\* Euclid's loop takes at most 2 iterations per bit of b, and one more when
\* a < b
EuclidSteps(b) == 2 * BitLength(b) + 2

\* gcd(a, b) for a, b >= 0
gcd(a, b) ==
  While(LAMBDA s: s.b # <<>>,
        LAMBDA s: [a |-> s.b, b |-> BigMod(s.a, s.b)],
        [a |-> a, b |-> b], EuclidSteps(b)).a

\* CPython raises RecursionError in a call that would bring the stack to
\* sys.getrecursionlimit() frames, 1000 unless the program changes it
RecursionLimit == 1000

\* the frames on the stack when modular_inverse calls extended_euclidean from
\* module-level code: the module's and modular_inverse's
CallerFrames == 2

\* extended_euclidean(a, b) for signed a, b: the chain of recursive calls
\* (a, b), (b, a % b), ... down to b = 0, then the returns from the base case
\* (a, 1, 0) back up, each computing x = y1, y = x1 - (a // b) * y1; one
\* frame per call of the chain
extended_euclidean(a, b) ==
  LET descend(s, d) == [a |-> s.b, b |-> d.r, qs |-> Append(s.qs, d.q)]
      ascend(r, q) == [x |-> r.y, y |-> SSub(r.x, SMul(q, r.y))]
      up(down) ==
        IF CallerFrames + Len(down.qs) + 1 >= RecursionLimit
        THEN Err("maximum recursion depth exceeded")
        ELSE Ok([g |-> down.a,
                 xy |-> Iter(LAMBDA r, i: ascend(r, down.qs[Len(down.qs) + 1 - i]),
                             [x |-> SPos(<<1>>), y |-> SPos(<<>>)],
                             1, Len(down.qs))])
      result(r) ==
        IF r.ok THEN Ok([g |-> r.val.g, x |-> r.val.xy.x, y |-> r.val.xy.y])
        ELSE r
  IN result(up(While(LAMBDA s: s.b.mag # <<>>,
                     LAMBDA s: descend(s, SDivMod(s.a, s.b)),
                     [a |-> a, b |-> b, qs |-> <<>>], EuclidSteps(b.mag))))

\* modular_inverse(a, m) for signed a and m > 0
modular_inverse(a, m) ==
  LET inverse(r) ==
        IF r.g # SPos(<<1>>) THEN Err("NoInverse")
        ELSE Ok(BigMod(BigAdd(SDivMod(r.x, SPos(m)).r.mag, m), m))
  IN Bind(extended_euclidean(a, SPos(m)), inverse)

\* fast_modular_exponentiation with the squaring of the base inside the
\* `if exponent % 2 == 1` branch: the base is squared on the odd bits only
fast_modular_exponentiation_square_on_odd(base, exponent, modulus) ==
  IF modulus = <<1>> THEN <<>>
  ELSE While(LAMBDA s: s.exponent # <<>>,
             LAMBDA s: [result |-> IF BigIsOdd(s.exponent)
                                   THEN BigMod(BigMul(s.result, s.base), modulus)
                                   ELSE s.result,
                        exponent |-> BigHalf(s.exponent),
                        base |-> IF BigIsOdd(s.exponent)
                                 THEN BigMod(BigMul(s.base, s.base), modulus)
                                 ELSE s.base],
             [result |-> <<1>>, base |-> BigMod(base, modulus), exponent |-> exponent],
             8 * Len(exponent)).result

\* fast_modular_exponentiation without its `if modulus == 1: return 0`
fast_modular_exponentiation_without_modulus_one(base, exponent, modulus) ==
  While(LAMBDA s: s.exponent # <<>>,
        LAMBDA s: [result |-> IF BigIsOdd(s.exponent)
                              THEN BigMod(BigMul(s.result, s.base), modulus)
                              ELSE s.result,
                   exponent |-> BigHalf(s.exponent),
                   base |-> BigMod(BigMul(s.base, s.base), modulus)],
        [result |-> <<1>>, base |-> BigMod(base, modulus), exponent |-> exponent],
        8 * Len(exponent)).result

\* fast_modular_exponentiation(base, exponent, modulus), all >= 0,
\* modulus > 0: the loop runs once per bit of the exponent
fast_modular_exponentiation(base, exponent, modulus) ==
  IF modulus = <<1>> THEN <<>>
  ELSE While(LAMBDA s: s.exponent # <<>>,
             LAMBDA s: [result |-> IF BigIsOdd(s.exponent)
                                   THEN BigMod(BigMul(s.result, s.base), modulus)
                                   ELSE s.result,
                        exponent |-> BigHalf(s.exponent),
                        base |-> BigMod(BigMul(s.base, s.base), modulus)],
             [result |-> <<1>>, base |-> BigMod(base, modulus), exponent |-> exponent],
             8 * Len(exponent)).result

-----------------------------------------------------------------------------
(* utils/encoding.py, and the str/bytes conversions of Python it calls.    *)

\* bytes_to_int(data): int.from_bytes(data, 'big')
bytes_to_int(data) == StripZeros(data)

\* int_to_bytes(number, length): number.to_bytes(length, 'big'), which raises
\* OverflowError when the number does not fit
int_to_bytes(number, length) ==
  IF Len(number) > length THEN Err("OverflowError")
  ELSE Ok([i \in 1..(length - Len(number)) |-> 0] \o number)

\* calculate_byte_length(key_size)
calculate_byte_length(key_size) == (key_size + 7) \div 8

\* A base64 str is a sequence of characters: 0..63 are the characters of the
\* base64 alphabet (by their value), then '=', an ASCII character outside the
\* alphabet, and a non-ASCII character.
B64 == [pad |-> 64, other |-> 65, nonascii |-> 66]

\* encode_base64(data): base64.b64encode(data).decode('ascii')
encode_base64(data) ==
  LET n == Len(data)
      at(i) == IF i <= n THEN data[i] ELSE 0
  IN [j \in 1..(4 * ((n + 2) \div 3)) |->
        LET g == (j - 1) \div 4
            k == (j - 1) % 4
            b0 == at(3 * g + 1)
            b1 == at(3 * g + 2)
            b2 == at(3 * g + 3)
        IN IF k = 0 THEN b0 \div 4
           ELSE IF k = 1 THEN (b0 % 4) * 16 + (b1 \div 16)
           ELSE IF k = 2 THEN (IF 3 * g + 2 > n THEN B64.pad
                               ELSE (b1 % 16) * 4 + (b2 \div 64))
           ELSE (IF 3 * g + 3 > n THEN B64.pad ELSE b2 % 64)]

\* decode_base64(data): base64.b64decode(data.encode('ascii')), any exception
\* turned into ValueError.  b64decode discards the characters outside the
\* alphabet, stops at the padding that completes a quad, and raises when the
\* data ends inside a quad.
decode_base64(data) ==
  IF \E i \in 1..Len(data) : data[i] = B64.nonascii THEN Err("ValueError")
  ELSE LET ended(f) ==
             IF f.quad_pos # 0 /\ f.quad_pos + f.pads < 4 THEN Err("ValueError")
             ELSE Ok(f.out)
       IN ended(Iter(LAMBDA st, i:
                  LET c == data[i]
                  IN IF st.done \/ c = B64.other THEN st
                     ELSE IF c = B64.pad THEN
                       (IF st.quad_pos >= 2
                        THEN (IF st.quad_pos + st.pads + 1 >= 4
                              THEN [st EXCEPT !.done = TRUE, !.pads = st.pads + 1]
                              ELSE [st EXCEPT !.pads = st.pads + 1])
                        ELSE st)
                     ELSE IF st.quad_pos = 0 THEN
                       [st EXCEPT !.pads = 0, !.quad_pos = 1, !.leftchar = c]
                     ELSE IF st.quad_pos = 1 THEN
                       [st EXCEPT !.pads = 0, !.quad_pos = 2, !.leftchar = c % 16,
                                  !.out = Append(st.out, st.leftchar * 4 + (c \div 16))]
                     ELSE IF st.quad_pos = 2 THEN
                       [st EXCEPT !.pads = 0, !.quad_pos = 3, !.leftchar = c % 4,
                                  !.out = Append(st.out, st.leftchar * 16 + (c \div 4))]
                     ELSE
                       [st EXCEPT !.pads = 0, !.quad_pos = 0, !.leftchar = 0,
                                  !.out = Append(st.out, st.leftchar * 64 + c)],
                [quad_pos |-> 0, leftchar |-> 0, pads |-> 0, out |-> <<>>,
                 done |-> FALSE], 1, Len(data)))

\* str.encode('utf-8') of a str without surrogates
str_encode(text) ==
  Iter(LAMBDA out, i:
         LET c == text[i]
         IN IF c < 128 THEN Append(out, c)
            ELSE IF c < 2048 THEN out \o <<192 + (c \div 64), 128 + (c % 64)>>
            ELSE IF c < 65536 THEN
              out \o <<224 + (c \div 4096), 128 + ((c \div 64) % 64), 128 + (c % 64)>>
            ELSE out \o <<240 + (c \div 262144), 128 + ((c \div 4096) % 64),
                          128 + ((c \div 64) % 64), 128 + (c % 64)>>,
       <<>>, 1, Len(text))

\* bytes.decode('utf-8'): strict, UnicodeDecodeError on an invalid or
\* truncated sequence
bytes_decode(data) ==
  LET n == Len(data)
      cont(i) == i <= n /\ data[i] >= 128 /\ data[i] <= 191
      in(i, lo, hi) == i <= n /\ data[i] >= lo /\ data[i] <= hi
      decoded(f) == IF f.ok THEN Ok(f.out) ELSE Err("UnicodeDecodeError")
  IN decoded(
         While(LAMBDA st: st.ok /\ st.i <= n,
                 LAMBDA st:
                   LET i == st.i
                       b == data[i]
                   IN IF b < 128 THEN [st EXCEPT !.i = i + 1, !.out = Append(st.out, b)]
                      ELSE IF b >= 194 /\ b <= 223 /\ cont(i + 1) THEN
                        [st EXCEPT !.i = i + 2,
                           !.out = Append(st.out, (b - 192) * 64 + (data[i + 1] - 128))]
                      ELSE IF b >= 224 /\ b <= 239 /\ cont(i + 2)
                              /\ (IF b = 224 THEN in(i + 1, 160, 191)
                                  ELSE IF b = 237 THEN in(i + 1, 128, 159)
                                  ELSE cont(i + 1)) THEN
                        [st EXCEPT !.i = i + 3,
                           !.out = Append(st.out, (b - 224) * 4096
                                      + (data[i + 1] - 128) * 64 + (data[i + 2] - 128))]
                      ELSE IF b >= 240 /\ b <= 244 /\ cont(i + 2) /\ cont(i + 3)
                              /\ (IF b = 240 THEN in(i + 1, 144, 191)
                                  ELSE IF b = 244 THEN in(i + 1, 128, 143)
                                  ELSE cont(i + 1)) THEN
                        [st EXCEPT !.i = i + 4,
                           !.out = Append(st.out, (b - 240) * 262144
                                      + (data[i + 1] - 128) * 4096
                                      + (data[i + 2] - 128) * 64 + (data[i + 3] - 128))]
                      ELSE [st EXCEPT !.ok = FALSE],
                 [i |-> 1, out |-> <<>>, ok |-> TRUE], n))

\* string_to_blocks(text, block_size): the slices text_bytes[i:i + block_size]
\* for i in range(0, len(text_bytes), block_size); range raises ValueError on
\* a zero step and is empty on a negative one
string_to_blocks(text, block_size) ==
  LET slices(text_bytes) ==
        [k \in 1..((Len(text_bytes) + block_size - 1) \div block_size) |->
           SubSeq(text_bytes, (k - 1) * block_size + 1,
                  Min(k * block_size, Len(text_bytes)))]
  IN IF block_size = 0 THEN Err("ValueError")
     ELSE IF block_size < 0 THEN Ok(<<>>)
     ELSE Ok(slices(str_encode(text)))

\* blocks_to_string(blocks): b''.join(blocks).decode('utf-8')
blocks_to_string(blocks) ==
  bytes_decode(Iter(LAMBDA out, k: out \o blocks[k], <<>>, 1, Len(blocks)))

-----------------------------------------------------------------------------
(* The random source.  secrets.randbits(8) is read as the next byte of a   *)
(* stream; a stream is a pattern of bytes repeated for ever.               *)

RandomStreams == {<<255>>, <<0, 1>>, <<7, 0, 0, 200, 13>>}

randbits(stream, j) == stream[((j - 1) % Len(stream)) + 1]

-----------------------------------------------------------------------------
(* crypto/padding.py                                                       *)

\* The loop of apply_pkcs1_padding that fills the padding string: each byte
\* is drawn again while it is zero.  j is the position of the next draw.
draw_nonzero_bytes(stream, padding_length) ==
  While(LAMBDA st: Len(st.padding_bytes) < padding_length,
        LAMBDA st: LET byte_val == randbits(stream, st.j)
                   IN [j |-> st.j + 1,
                       padding_bytes |-> IF byte_val = 0 THEN st.padding_bytes
                                         ELSE Append(st.padding_bytes, byte_val)],
        [j |-> 1, padding_bytes |-> <<>>],
        padding_length * Len(stream))

random_nonzero_bytes(stream, padding_length) ==
  draw_nonzero_bytes(stream, padding_length).padding_bytes

\* apply_pkcs1_padding(message, target_length, padding_type), drawing from stream
apply_pkcs1_padding(message, target_length, padding_type, stream) ==
  LET padding_length == target_length - Len(message) - 3
      padded(block_type, padding_string) ==
        <<0, block_type>> \o padding_string \o <<0>> \o message
  IN IF Len(message) > target_length - 11
       THEN Err("Message too long for padding")
     ELSE IF target_length < 11
       THEN Err("Target length must be at least 11 bytes")
     ELSE IF padding_type = "encryption"
       THEN Ok(padded(2, random_nonzero_bytes(stream, padding_length)))
     ELSE IF padding_type = "signature"
       THEN Ok(padded(1, [i \in 1..padding_length |-> 255]))
     ELSE Err("padding_type must be 'encryption' or 'signature'")

\* remove_pkcs1_padding without its checks of the padding string: whatever
\* follows the first zero byte after the block type
remove_pkcs1_padding_unchecked(padded_message, padding_type) ==
  LET n == Len(padded_message)
      zeros == {i \in 3..n : padded_message[i] = 0}
  IN IF zeros = {} THEN Err("Invalid padding: separator not found")
     ELSE Ok(SubSeq(padded_message, (CHOOSE i \in zeros : \A k \in zeros : i <= k) + 1, n))

\* remove_pkcs1_padding(padded_message, padding_type).  Python indexes from
\* 0, the sequences here from 1: padded_message[i] is written pm(i).
remove_pkcs1_padding(padded_message, padding_type) ==
  LET n == Len(padded_message)
      pm(i) == padded_message[i + 1]
      expected_bt == IF padding_type = "encryption" THEN 2 ELSE 1
      zeros == {i \in 2..(n - 1) : pm(i) = 0}
      separator_index == IF zeros = {} THEN -1
                         ELSE CHOOSE i \in zeros : \A k \in zeros : i <= k
      padding_length == separator_index - 2
      message == SubSeq(padded_message, separator_index + 2, n)
  IN IF n < 11 THEN Err("Padded message too short")
     ELSE IF pm(0) # 0 THEN Err("Invalid padding: first byte must be 0x00")
     ELSE IF pm(1) # expected_bt THEN Err("Invalid padding: wrong block type")
     ELSE IF separator_index = -1 THEN Err("Invalid padding: separator not found")
     ELSE IF padding_length < 8 THEN Err("Invalid padding: padding string too short")
     ELSE IF padding_type = "encryption"
             /\ \E i \in 2..(separator_index - 1) : pm(i) = 0
       THEN Err("Invalid padding: zero byte in encryption padding")
     ELSE IF padding_type = "signature"
             /\ \E i \in 2..(separator_index - 1) : pm(i) # 255
       THEN Err("Invalid padding: non-0xFF byte in signature padding")
     ELSE IF Len(message) = 0 THEN Err("Invalid padding: empty message")
     ELSE Ok(message)

\* verify_padding_integrity(padded_message): the report it returns, each
\* error message by its fixed part
verify_padding_integrity(padded_message) ==
  LET n == Len(padded_message)
      pm(i) == padded_message[i + 1]
      zeros == {i \in 2..(n - 1) : pm(i) = 0}
      separator_index == IF zeros = {} THEN -1
                         ELSE CHOOSE i \in zeros : \A k \in zeros : i <= k
      result == [valid |-> FALSE, length |-> n, block_type |-> None,
                 padding_length |-> 0, message_length |-> 0, errors |-> <<>>]
      first_byte == IF pm(0) # 0 THEN <<"Invalid first byte">> ELSE <<>>
      block_type == IF pm(1) \notin {1, 2} THEN <<"Invalid block type">>
                    ELSE <<>>
      too_short == IF separator_index - 2 < 8
                   THEN <<"Padding string too short">> ELSE <<>>
      padding_bytes ==
        IF pm(1) = 2 /\ \E i \in 2..(separator_index - 1) : pm(i) = 0
          THEN <<"Zero byte found in encryption padding">>
        ELSE IF pm(1) = 1 /\ \E i \in 2..(separator_index - 1) : pm(i) # 255
          THEN <<"Non-0xFF byte found in signature padding">>
        ELSE <<>>
      errors == first_byte \o block_type \o too_short \o padding_bytes
  IN IF n < 11
       THEN [result EXCEPT !.errors = <<"Message too short for PKCS#1 padding">>]
     ELSE IF separator_index = -1
       THEN [result EXCEPT !.block_type = Some(pm(1)),
                           !.errors = first_byte \o block_type
                                        \o <<"Separator byte not found">>]
     ELSE [valid |-> errors = <<>>, length |-> n, block_type |-> Some(pm(1)),
           padding_length |-> separator_index - 2,
           message_length |-> n - separator_index - 1, errors |-> errors]

-----------------------------------------------------------------------------
(* utils/math.py and crypto/prime.py: the primality test.  The witness     *)
(* bases are drawn from a source [start, step]: the j-th call of           *)
(* randbelow(bound) returns (start + (j - 1) * step) % bound.              *)

\* miller_rabin_witness without its loop of squarings: a is a witness unless
\* a^d is 1 or n - 1
miller_rabin_witness_unsquared(a, n, d, r) ==
  LET n_minus_1 == BigSub(n, <<1>>)
      rounds(x) == ~(x = <<1>> \/ x = n_minus_1)
  IN rounds(fast_modular_exponentiation(a, d, n))

\* miller_rabin_witness(a, n, d, r)
miller_rabin_witness(a, n, d, r) ==
  LET n_minus_1 == BigSub(n, <<1>>)
      squared(st) == [x |-> fast_modular_exponentiation(st.x, <<2>>, n),
                      returned |-> FALSE]
      round(st) == IF st.x = n_minus_1 THEN [st EXCEPT !.returned = TRUE] ELSE st
      rounds(x) ==
        IF x = <<1>> \/ x = n_minus_1 THEN FALSE
        ELSE ~Iter(LAMBDA st, i: IF st.returned THEN st ELSE round(squared(st)),
                   [x |-> x, returned |-> FALSE], 1, r - 1).returned
  IN rounds(fast_modular_exponentiation(a, d, n))

SMALL_PRIMES ==
  <<2, 3, 5, 7, 11, 13, 17, 19, 23, 29, 31, 37, 41, 43, 47, 53, 59, 61, 67, 71,
    73, 79, 83, 89, 97, 101, 103, 107, 109, 113, 127, 131, 137, 139, 149, 151,
    157, 163, 167, 173, 179, 181, 191, 193, 197, 199, 211, 223, 227, 229, 233,
    239, 241, 251, 257, 263, 269, 271, 277, 281, 283, 293, 307, 311, 313, 317>>

\* is_divisible_by_small_primes(n): at the first small prime dividing n,
\* the loop returns `n == prime`
is_divisible_by_small_primes(n) ==
  LET first(dividing) ==
        IF dividing = {} THEN FALSE
        ELSE n = IntToBig(SMALL_PRIMES[CHOOSE i \in dividing :
                                         \A k \in dividing : i <= k])
  IN first({i \in 1..Len(SMALL_PRIMES) :
              BigMod(n, IntToBig(SMALL_PRIMES[i])) = <<>>})

randbelow(source, j, bound) == (source.start + (j - 1) * source.step) % bound

\* miller_rabin_test(n, k) for n < 2^24, the bases drawn from source
miller_rabin_test(n, k, source) ==
  LET base(j) == IntToBig(randbelow(source, j, BigToInt(n) - 3) + 2)
      test(f) == \A j \in 1..k : ~miller_rabin_witness(base(j), n, f.d, f.r)
  IN IF BigLess(n, <<2>>) THEN FALSE
     ELSE IF \E i \in 1..Len(SMALL_PRIMES) : n = IntToBig(SMALL_PRIMES[i]) THEN TRUE
     ELSE IF is_divisible_by_small_primes(n) THEN FALSE
     ELSE IF ~BigIsOdd(n) THEN FALSE
     ELSE test(While(LAMBDA f: ~BigIsOdd(f.d),
                     LAMBDA f: [r |-> f.r + 1, d |-> BigHalf(f.d)],
                     [r |-> 0, d |-> BigSub(n, <<1>>)], 8 * Len(n)))

\* generate_random_odd(bit_length, secure) for bit_length <= 16: drawn is what
\* secrets.token_bytes(byte_length) returns when secure, and what
\* random.getrandbits(bit_length) returns otherwise
generate_random_odd(bit_length, secure, drawn) ==
  LET or(n, bit) == IF (n \div bit) % 2 = 1 THEN n ELSE n + bit
  IN or(or(IF secure THEN BigToInt(bytes_to_int(drawn)) ELSE drawn,
           2 ^ (bit_length - 1)),
        1)

\* generate_prime(bit_length, secure) for bit_length <= 16: draws[i] is what
\* the i-th turn of the loop draws, the candidate's bits and the source of
\* the bases of its test.  The loop returns the first candidate the test
\* accepts; result is None when the loop is still running after the draws.
generate_prime(bit_length, secure, draws) ==
  LET candidate(i) == generate_random_odd(bit_length, secure, draws[i].drawn)
      turns(passing) ==
        IF passing = {} THEN [candidates |-> [i \in 1..Len(draws) |-> candidate(i)],
                              result |-> None]
        ELSE LET last == CHOOSE i \in passing : \A k \in passing : i <= k
             IN [candidates |-> [i \in 1..last |-> candidate(i)],
                 result |-> Some(candidate(last))]
  IN turns({i \in 1..Len(draws) :
              miller_rabin_test(IntToBig(candidate(i)), 20, draws[i].source)})

DefaultRounds == 10

\* is_carmichael_number(n) for n < 2^24, the bases of its miller_rabin_test
\* drawn from source
is_carmichael_number(n, source) ==
  LET divide(st, p) ==
        IF st.returned \/ st.temp % p # 0 THEN st
        ELSE [temp |-> st.temp \div p, factors |-> Append(st.factors, p),
              returned |-> (st.temp \div p) % p = 0]
      all(st) == IF st.temp > 1 THEN Append(st.factors, st.temp) ELSE st.factors
      korselt(factors) ==
        /\ Len(factors) >= 3
        /\ \A i \in 1..Len(factors) : (n - 1) % (factors[i] - 1) = 0
      decided(st) == ~st.returned /\ korselt(all(st))
  IN IF n < 561 \/ miller_rabin_test(IntToBig(n), DefaultRounds, source)
     THEN FALSE
     ELSE decided(Iter(LAMBDA st, i: divide(st, SMALL_PRIMES[i]),
                       [temp |-> n, factors |-> <<>>, returned |-> FALSE],
                       1, Len(SMALL_PRIMES)))

-----------------------------------------------------------------------------
(* crypto/prime.py: the public exponent                                    *)

PreferredExponents == <<IntToBig(65537), IntToBig(17), IntToBig(257), IntToBig(3)>>

\* find_public_exponent returning 65537 whatever phi_n is
find_public_exponent_unchecked(phi_n) == PreferredExponents[1]

\* find_public_exponent trying [3, 257, 17, 65537] in this order
find_public_exponent_reversed(phi_n) ==
  LET coprime(e) == gcd(e, phi_n) = <<1>>
      first(preferred) ==
        IF preferred # {}
        THEN PreferredExponents[CHOOSE i \in preferred : \A k \in preferred : i >= k]
        ELSE While(LAMBDA e: ~coprime(e),
                   LAMBDA e: BigAdd(e, <<2>>),
                   <<3>>, 8 * Len(phi_n) + 8)
  IN first({i \in 1..Len(PreferredExponents) : coprime(PreferredExponents[i])})

\* find_public_exponent(phi_n): the first preferred exponent coprime to
\* phi_n, else the first odd e >= 3 that is
find_public_exponent(phi_n) ==
  LET coprime(e) == gcd(e, phi_n) = <<1>>
      first(preferred) ==
        IF preferred # {}
        THEN PreferredExponents[CHOOSE i \in preferred : \A k \in preferred : i <= k]
        ELSE While(LAMBDA e: ~coprime(e),
                   LAMBDA e: BigAdd(e, <<2>>),
                   <<3>>, 8 * Len(phi_n) + 8)
  IN first({i \in 1..Len(PreferredExponents) : coprime(PreferredExponents[i])})

\* pollard_rho_factorization ending in `return d`, the last gcd computed,
\* instead of `return n`
pollard_rho_factorization_returning_gcd(n, max_iterations) ==
  LET f(x) == (x * x + 1) % n
      found(d) == 1 < d /\ d < n
      step(s, x, y) ==
        [x |-> x, y |-> y, steps |-> s.steps + 1,
         d |-> BigToInt(gcd(IntToBig(IF x >= y THEN x - y ELSE y - x),
                            IntToBig(n)))]
      loop == While(LAMBDA s: s.steps < max_iterations /\ ~found(s.d),
                    LAMBDA s: step(s, f(s.x), f(f(s.y))),
                    [x |-> 2, y |-> 2, d |-> 1, steps |-> 0], max_iterations)
      returned(s) == [steps |-> s.steps, result |-> s.d]
  IN IF n % 2 = 0 THEN [steps |-> 0, result |-> 2]
     ELSE returned(loop)

\* pollard_rho_factorization(n, max_iterations) for 1 <= n < 2^15: what it
\* returns and the number of iterations of its loop
pollard_rho_factorization(n, max_iterations) ==
  LET f(x) == (x * x + 1) % n
      found(d) == 1 < d /\ d < n
      step(s, x, y) ==
        [x |-> x, y |-> y, steps |-> s.steps + 1,
         d |-> BigToInt(gcd(IntToBig(IF x >= y THEN x - y ELSE y - x),
                            IntToBig(n)))]
      loop == While(LAMBDA s: s.steps < max_iterations /\ ~found(s.d),
                    LAMBDA s: step(s, f(s.x), f(f(s.y))),
                    [x |-> 2, y |-> 2, d |-> 1, steps |-> 0], max_iterations)
      returned(s) == [steps |-> s.steps, result |-> IF found(s.d) THEN s.d ELSE n]
  IN IF n % 2 = 0 THEN [steps |-> 0, result |-> 2]
     ELSE returned(loop)

-----------------------------------------------------------------------------
(* core/keypair.py                                                         *)

\* RSAKeyPair(public_key, private_key, modulus): public_key is <<e, n>>,
\* private_key and modulus are Optional
RSAKeyPair(public_key, private_key, modulus) ==
  [public_key |-> public_key,
   private_key |-> private_key,
   modulus |-> IF modulus # None THEN modulus[1] ELSE public_key[2]]

\* RSAKeyPair.key_size
key_size(kp) == BitLength(kp.modulus)

\* A key string stands for what deserialize_key_data makes of it:
\* Err("Failed to deserialize key data") when it is not the base64 of a JSON
\* text, Ok(key_data) otherwise, key_data the function from field names to
\* values.

\* RSAKeyPair.from_public_key_string(key_string)
from_public_key_string(key_string) ==
  LET build(key_data) ==
        IF "type" \notin DOMAIN key_data \/ key_data["type"] # "RSA_PUBLIC_KEY"
        THEN Err("Failed to import public key")
        ELSE IF ~({"e", "n"} \subseteq DOMAIN key_data)
        THEN Err("Failed to import public key")
        ELSE Ok(RSAKeyPair(<<key_data["e"], key_data["n"]>>, None, None))
  IN IF key_string.ok THEN build(key_string.val)
     ELSE Err("Failed to import public key")

\* RSAKeyPair.from_private_key_string(key_string)
from_private_key_string(key_string) ==
  LET build(key_data) ==
        IF "type" \notin DOMAIN key_data \/ key_data["type"] # "RSA_PRIVATE_KEY"
        THEN Err("Failed to import private key")
        ELSE IF ~({"e", "n", "d"} \subseteq DOMAIN key_data)
        THEN Err("Failed to import private key")
        ELSE Ok(RSAKeyPair(<<key_data["e"], key_data["n"]>>,
                           Some(key_data["d"]), Some(key_data["n"])))
  IN IF key_string.ok THEN build(key_string.val)
     ELSE Err("Failed to import private key")

-----------------------------------------------------------------------------
(* engine/rsa.py.  Each method is an operator of the engine's key pair     *)
(* (engine, the value of _key_pair) and the method's arguments.            *)

MinKeySize == 512

\* lines 52-63 of generate_key_pair: the key pair of the primes p and q
BuildKeyPair(p, q) ==
  LET store(n, e, d) == RSAKeyPair(<<e, n>>, Some(d), Some(n))
      private(n, phi_n, e) ==
        Bind(modular_inverse(SPos(e), phi_n), LAMBDA d: Ok(store(n, e, d)))
      public(n, phi_n) == private(n, phi_n, find_public_exponent(phi_n))
  IN public(BigMul(p, q), BigMul(BigSub(p, <<1>>), BigSub(q, <<1>>)))

\* generate_key_pair(key_size), generate_prime_pair returning <<p, q>>
generate_key_pair(size, pq) ==
  IF size < MinKeySize
  THEN Err("Key size must be at least 512 bits for security")
  ELSE BuildKeyPair(pq[1], pq[2])

encrypt_number(engine, message) ==
  IF engine = None THEN Err("No key pair loaded")
  ELSE IF ~BigLess(message, engine[1].modulus)
    THEN Err("Message too large for key size")
  ELSE Ok(fast_modular_exponentiation(message, engine[1].public_key[1],
                                      engine[1].public_key[2]))

\* decrypt_number testing only whether a key pair is loaded; a missing
\* private exponent counts as 0
decrypt_number_any_key(engine, ciphertext) ==
  IF engine = None
  THEN Err("No private key available for decryption")
  ELSE Ok(fast_modular_exponentiation(
            ciphertext,
            IF engine[1].private_key = None THEN <<>>
            ELSE engine[1].private_key[1],
            engine[1].modulus))

decrypt_number(engine, ciphertext) ==
  IF engine = None \/ engine[1].private_key = None
  THEN Err("No private key available for decryption")
  ELSE Ok(fast_modular_exponentiation(ciphertext, engine[1].private_key[1],
                                      engine[1].modulus))

\* lines 103-107 of encrypt_text, 137-141 of encrypt_long_text
encrypt_block(engine, block, byte_length, stream) ==
  Bind(apply_pkcs1_padding(block, byte_length, "encryption", stream),
       LAMBDA padded_message:
  Bind(encrypt_number(engine, bytes_to_int(padded_message)),
       LAMBDA encrypted_int:
  Bind(int_to_bytes(encrypted_int, byte_length),
       LAMBDA encrypted_bytes: Ok(encode_base64(encrypted_bytes)))))

encrypt_text(engine, message, stream) ==
  IF engine = None THEN Err("No key pair loaded")
  ELSE LET message_bytes == str_encode(message)
           byte_length == calculate_byte_length(key_size(engine[1]))
           max_message_size == byte_length - 11
       IN IF Len(message_bytes) > max_message_size THEN Err("Message too long")
          ELSE encrypt_block(engine, message_bytes, byte_length, stream)

\* lines 114-120 of decrypt_text, 153-157 of decrypt_long_text
decrypt_block(engine, encrypted_message, byte_length) ==
  Bind(decode_base64(encrypted_message),
       LAMBDA encrypted_bytes:
  Bind(decrypt_number(engine, bytes_to_int(encrypted_bytes)),
       LAMBDA decrypted_int:
  Bind(int_to_bytes(decrypted_int, byte_length),
       LAMBDA decrypted_bytes:
         remove_pkcs1_padding(decrypted_bytes, "encryption"))))

decrypt_text(engine, encrypted_message) ==
  IF engine = None \/ engine[1].private_key = None
  THEN Err("No private key available for decryption")
  ELSE LET byte_length == calculate_byte_length(key_size(engine[1]))
           reraised(r) ==
             IF r.ok THEN r
             ELSE [ok |-> FALSE, val |-> "Decryption failed", cause |-> r.val]
       IN reraised(Bind(decrypt_block(engine, encrypted_message, byte_length),
                        LAMBDA message_bytes: bytes_decode(message_bytes)))

\* the random source after the padding of one block was drawn from it
stream_after(stream, padding_length) ==
  LET used == draw_nonzero_bytes(stream, padding_length).j - 1
  IN [i \in 1..Len(stream) |-> randbits(stream, used + i)]

encrypt_long_text(engine, message, stream) ==
  IF engine = None THEN Err("No key pair loaded")
  ELSE LET byte_length == calculate_byte_length(key_size(engine[1]))
           max_block_size == byte_length - 11
           returned(r) == IF r.ok THEN Ok(r.val) ELSE r
       IN Bind(string_to_blocks(message, max_block_size),
               LAMBDA blocks:
                 returned(
                 Iter(LAMBDA st, k:
                        IF ~st.ok THEN st
                        ELSE Bind(encrypt_block(engine, blocks[k], byte_length,
                                                st.stream),
                                  LAMBDA encrypted:
                                    [ok |-> TRUE,
                                     val |-> Append(st.val, encrypted),
                                     stream |-> stream_after(st.stream,
                                        byte_length - Len(blocks[k]) - 3)]),
                      [ok |-> TRUE, val |-> <<>>, stream |-> stream],
                      1, Len(blocks))))

decrypt_long_text(engine, encrypted_blocks) ==
  IF engine = None \/ engine[1].private_key = None
  THEN Err("No private key available for decryption")
  ELSE LET byte_length == calculate_byte_length(key_size(engine[1]))
       IN Bind(Iter(LAMBDA st, k:
                      IF ~st.ok THEN st
                      ELSE Bind(decrypt_block(engine, encrypted_blocks[k],
                                              byte_length),
                                LAMBDA block_bytes:
                                  Ok(Append(st.val, block_bytes))),
                    Ok(<<>>), 1, Len(encrypted_blocks)),
               LAMBDA decrypted_blocks: blocks_to_string(decrypted_blocks))

\* hashlib.sha256(data).digest(), for the data the model signs and the key
\* data it fingerprints
sha256(data) ==
  CASE data = <<>> ->
      <<227, 176, 196, 66, 152, 252, 28, 20, 154, 251, 244, 200, 153, 111,
      185, 36, 39, 174, 65, 228, 100, 155, 147, 76, 164, 149, 153, 27, 120,
      82, 184, 85>>
    [] data = <<97>> ->
      <<202, 151, 129, 18, 202, 27, 189, 202, 250, 194, 49, 179, 154, 35,
      220, 77, 167, 134, 239, 248, 20, 124, 78, 114, 185, 128, 119, 133,
      175, 238, 72, 187>>
    [] data = <<104, 105>> ->
      <<143, 67, 67, 70, 100, 143, 107, 150, 223, 137, 221, 169, 1, 197, 23,
      107, 16, 166, 216, 57, 97, 221, 60, 26, 200, 139, 89, 178, 220, 50,
      122, 164>>
    \* '3:n' of KeyTiny
    [] data = <<51, 58, 53, 53>> -> <<177, 216, 254, 88, 143, 178, 39, 143,
      201, 224, 218, 167, 90, 92, 154, 56, 211, 187, 10, 116, 45, 58, 240,
      91, 31, 248, 22, 102, 102, 85, 183, 103>>
    \* '65537:n' of the pair of 7 and 11
    [] data = <<54, 53, 53, 51, 55, 58, 55, 55>> -> <<74, 49, 20, 216, 222,
      197, 197, 169, 150, 200, 188, 5, 142, 246, 201, 65, 164, 131, 223,
      171, 140, 9, 93, 220, 215, 100, 155, 211, 62, 8, 158, 227>>
    \* '65537:n' of the 96-bit pair
    [] data = <<54, 53, 53, 51, 55, 58, 52, 52, 49, 51, 50, 48, 48, 52, 51,
      48, 57, 54, 49, 49, 55, 48, 52, 52, 53, 54, 56, 50, 54, 53, 50, 52,
      57, 49, 57>> -> <<2, 180, 113, 150, 45, 27, 255, 74, 142, 101, 86,
      225, 175, 162, 138, 136, 165, 133, 203, 145, 187, 85, 162, 11, 111,
      233, 17, 205, 192, 236, 219, 11>>
    \* '3:n' of the 343-bit pair
    [] data = <<51, 58, 49, 52, 57, 54, 54, 55, 50, 53, 53, 55, 48, 57, 57,
      50, 53, 49, 55, 54, 51, 48, 55, 53, 55, 53, 50, 54, 57, 49, 48, 48,
      51, 50, 50, 56, 50, 56, 51, 52, 48, 57, 50, 56, 51, 55, 51, 51, 50,
      50, 54, 49, 57, 55, 50, 51, 57, 49, 52, 53, 53, 56, 50, 50, 50, 55,
      49, 51, 49, 50, 50, 51, 57, 53, 49, 53, 51, 55, 53, 52, 52, 48, 55,
      48, 49, 51, 49, 52, 55, 49, 56, 56, 51, 49, 48, 53, 50, 57, 52, 52,
      53, 49, 48, 57, 56, 55>> -> <<67, 205, 213, 101, 27, 195, 210, 56, 1,
      34, 61, 104, 41, 186, 178, 255, 14, 66, 90, 47, 92, 77, 151, 12, 156,
      53, 175, 189, 130, 35, 111, 169>>
    \* '65537:n' of the seeded 512-bit pair
    [] data = <<54, 53, 53, 51, 55, 58, 57, 50, 50, 49, 55, 57, 51, 50, 51,
      54, 56, 51, 51, 51, 56, 55, 50, 57, 49, 52, 53, 48, 49, 52, 54, 51,
      53, 57, 51, 48, 49, 54, 52, 49, 57, 54, 56, 57, 54, 49, 51, 57, 53,
      53, 51, 55, 55, 54, 48, 49, 50, 50, 53, 48, 55, 55, 56, 51, 56, 53,
      49, 49, 54, 50, 49, 52, 55, 51, 57, 57, 48, 55, 56, 53, 54, 48, 53,
      56, 56, 51, 52, 53, 53, 48, 48, 48, 56, 56, 48, 48, 48, 56, 48, 53,
      57, 55, 51, 57, 54, 52, 52, 56, 57, 53, 51, 52, 50, 56, 54, 49, 49,
      48, 50, 55, 52, 54, 55, 49, 55, 57, 55, 54, 50, 49, 54, 53, 48, 54,
      50, 55, 50, 50, 52, 54, 56, 53, 54, 49, 53, 50, 50, 57, 56, 50, 56,
      53, 52, 52, 57, 56, 48, 56, 57, 55>> -> <<177, 186, 239, 87, 4, 233,
      83, 212, 112, 224, 62, 59, 166, 6, 85, 244, 245, 71, 57, 113, 247,
      196, 229, 35, 74, 97, 8, 189, 11, 179, 176, 199>>

\* hashlib.sha384(data).digest(), for the data the model signs
sha384(data) ==
  CASE data = <<>> ->
      <<56, 176, 96, 167, 81, 172, 150, 56, 76, 217, 50, 126, 177, 177, 227,
      106, 33, 253, 183, 17, 20, 190, 7, 67, 76, 12, 199, 191, 99, 246, 225,
      218, 39, 78, 222, 191, 231, 111, 101, 251, 213, 26, 210, 241, 72, 152,
      185, 91>>
    [] data = <<97>> ->
      <<84, 165, 155, 159, 34, 176, 184, 8, 128, 216, 66, 126, 84, 139, 124,
      35, 171, 216, 115, 72, 110, 31, 3, 93, 206, 156, 214, 151, 232, 81,
      117, 3, 60, 170, 136, 230, 213, 123, 195, 94, 250, 224, 181, 175, 211,
      20, 95, 49>>
    [] data = <<104, 105>> ->
      <<7, 145, 0, 109, 248, 18, 132, 119, 36, 79, 83, 208, 253, 206, 33,
      13, 184, 31, 85, 117, 117, 16, 226, 106, 206, 227, 92, 24, 166, 188,
      234, 162, 141, 205, 187, 253, 109, 192, 65, 185, 180, 220, 123, 27,
      84, 227, 127, 82>>

\* hashlib.sha512(data).digest(), for the data the model signs
sha512(data) ==
  CASE data = <<>> ->
      <<207, 131, 225, 53, 126, 239, 184, 189, 241, 84, 40, 80, 214, 109,
      128, 7, 214, 32, 228, 5, 11, 87, 21, 220, 131, 244, 169, 33, 211, 108,
      233, 206, 71, 208, 209, 60, 93, 133, 242, 176, 255, 131, 24, 210, 135,
      126, 236, 47, 99, 185, 49, 189, 71, 65, 122, 129, 165, 56, 50, 122,
      249, 39, 218, 62>>
    [] data = <<97>> ->
      <<31, 64, 252, 146, 218, 36, 22, 148, 117, 9, 121, 238, 108, 245, 130,
      242, 213, 215, 210, 142, 24, 51, 93, 224, 90, 188, 84, 208, 86, 14,
      15, 83, 2, 134, 12, 101, 43, 240, 141, 86, 2, 82, 170, 94, 116, 33, 5,
      70, 243, 105, 251, 187, 206, 140, 18, 207, 199, 149, 123, 38, 82, 254,
      154, 117>>
    [] data = <<104, 105>> ->
      <<21, 10, 20, 237, 91, 234, 108, 199, 49, 207, 134, 196, 21, 102, 172,
      66, 122, 141, 180, 142, 241, 185, 253, 98, 102, 100, 179, 191, 187,
      153, 7, 31, 164, 201, 34, 243, 61, 222, 56, 113, 155, 140, 131, 84,
      226, 183, 171, 157, 119, 224, 230, 127, 193, 40, 67, 146, 10, 113, 46,
      115, 213, 88, 225, 151>>

HashAlgorithms == {"sha256", "sha384", "sha512"}

\* hash_functions[hash_algorithm](data).digest()
digest(hash_algorithm, data) ==
  CASE hash_algorithm = "sha256" -> sha256(data)
    [] hash_algorithm = "sha384" -> sha384(data)
    [] hash_algorithm = "sha512" -> sha512(data)

sign_message(engine, message, hash_algorithm) ==
  IF engine = None \/ engine[1].private_key = None
  THEN Err("No private key available for signing")
  ELSE IF hash_algorithm \notin HashAlgorithms
    THEN Err("Unsupported hash algorithm")
  ELSE LET message_hash == digest(hash_algorithm, str_encode(message))
           byte_length == calculate_byte_length(key_size(engine[1]))
       IN Bind(apply_pkcs1_padding(message_hash, byte_length, "signature", <<>>),
               LAMBDA padded_hash:
          Bind(decrypt_number(engine, bytes_to_int(padded_hash)),
               LAMBDA signature_int:
          Bind(int_to_bytes(signature_int, byte_length),
               LAMBDA signature_bytes: Ok(encode_base64(signature_bytes)))))

\* verify_signature without the comparison of the digests: True as soon as
\* the signature decrypts to a padded block
verify_signature_unpadded_only(engine, message, signature, hash_algorithm) ==
  IF engine = None THEN Err("No key pair loaded")
  ELSE IF hash_algorithm \notin HashAlgorithms THEN Ok(FALSE)
  ELSE LET byte_length == calculate_byte_length(key_size(engine[1]))
           caught(r) == IF r.ok THEN r ELSE Ok(FALSE)
       IN caught(Bind(decode_base64(signature),
                     LAMBDA signature_bytes:
                Bind(encrypt_number(engine, bytes_to_int(signature_bytes)),
                     LAMBDA decrypted_int:
                Bind(int_to_bytes(decrypted_int, byte_length),
                     LAMBDA decrypted_bytes:
                Bind(remove_pkcs1_padding(decrypted_bytes, "signature"),
                     LAMBDA decrypted_hash: Ok(TRUE))))))

verify_signature(engine, message, signature, hash_algorithm) ==
  IF engine = None THEN Err("No key pair loaded")
  ELSE IF hash_algorithm \notin HashAlgorithms THEN Ok(FALSE)
  ELSE LET byte_length == calculate_byte_length(key_size(engine[1]))
           caught(r) == IF r.ok THEN r ELSE Ok(FALSE)
       IN caught(Bind(decode_base64(signature),
                     LAMBDA signature_bytes:
                Bind(encrypt_number(engine, bytes_to_int(signature_bytes)),
                     LAMBDA decrypted_int:
                Bind(int_to_bytes(decrypted_int, byte_length),
                     LAMBDA decrypted_bytes:
                Bind(remove_pkcs1_padding(decrypted_bytes, "signature"),
                     LAMBDA decrypted_hash:
                       Ok(decrypted_hash
                            = digest(hash_algorithm, str_encode(message))))))))

\* str(number).encode('utf-8') for number >= 0: its decimal digits, six at a
\* time, each six the remainder of one long division by 10^6
int_str(number) ==
  LET divide(a) ==
        Iter(LAMBDA st, i:
               [q |-> Append(st.q, (st.r * 256 + a[i]) \div 1000000),
                r |-> (st.r * 256 + a[i]) % 1000000],
             [q |-> <<>>, r |-> 0], 1, Len(a))
      six(r) == [i \in 1..6 |-> 48 + ((r \div (10 ^ (6 - i))) % 10)]
      put(s, d) == [q |-> StripZeros(d.q), text |-> six(d.r) \o s.text]
      RECURSIVE unpadded(_)
      unpadded(text) ==
        IF text = <<>> THEN <<48>>
        ELSE IF Len(text) > 1 /\ text[1] = 48 THEN unpadded(Tail(text))
        ELSE text
  IN unpadded(While(LAMBDA s: s.q # <<>>,
                    LAMBDA s: put(s, divide(s.q)),
                    [q |-> number, text |-> <<>>], Len(number) + 1).text)

\* bytes.hex(): two lower-case hexadecimal digits per byte
hex(data) ==
  LET digit(v) == IF v < 10 THEN 48 + v ELSE 87 + v
  IN [i \in 1..(2 * Len(data)) |->
        IF i % 2 = 1 THEN digit(data[(i + 1) \div 2] \div 16)
        ELSE digit(data[i \div 2] % 16)]

\* get_key_info() of an engine whose session id is session
get_key_info(engine, session) ==
  LET fingerprint(e, n) ==
        SubSeq(hex(sha256(int_str(e) \o <<58>> \o int_str(n))), 1, 16)
  IN IF engine = None THEN [status |-> "No key pair loaded"]
     ELSE [key_size |-> key_size(engine[1]),
           public_exponent |-> engine[1].public_key[1],
           has_private_key |-> engine[1].private_key # None,
           fingerprint |-> fingerprint(engine[1].public_key[1],
                                       engine[1].public_key[2]),
           session_id |-> session]

-----------------------------------------------------------------------------
(* Key material.                                                           *)

\* primes as generate_prime(bit_length) returns them, by bit length
Primes44 == <<<<8, 128, 186, 136, 193, 145>>, <<12, 193, 206, 55, 21,
    249>>>>
Primes48 == <<<<156, 226, 232, 2, 95, 215>>, <<232, 175, 107, 198, 207,
    225>>>>
Primes172 == <<<<8, 42, 110, 218, 213, 56, 143, 203, 63, 16, 40, 51, 32, 82,
    98, 182, 156, 232, 144, 88, 175, 35>>, <<13, 23, 232, 31, 42, 169, 209,
    200, 7, 17, 116, 67, 124, 81, 157, 215, 64, 31, 25, 111, 93, 249>>>>
\* 256-bit primes; the second has 3 * 17 dividing p - 1 and the third has
\* 257 * 65537 dividing p - 1
Primes256 == <<<<154, 54, 152, 225, 4, 41, 176, 18, 18, 193, 3, 7, 222, 172,
    1, 72, 78, 134, 198, 141, 18, 152, 211, 72, 99, 255, 212, 134, 248, 126,
    180, 221>>, <<237, 6, 251, 174, 148, 63, 15, 108, 37, 52, 9, 113, 87,
    169, 108, 150, 82, 163, 85, 111, 243, 82, 185, 86, 114, 128, 76, 123,
    168, 124, 9, 167>>, <<235, 178, 16, 239, 137, 81, 100, 91, 120, 135, 77,
    81, 169, 202, 229, 59, 115, 42, 122, 228, 161, 54, 188, 77, 41, 201, 39,
    123, 94, 180, 45, 175>>, <<253, 20, 51, 17, 70, 145, 195, 53, 252, 143,
    199, 20, 62, 6, 197, 96, 244, 57, 62, 135, 56, 168, 54, 134, 223, 221,
    109, 64, 80, 99, 75, 51>>>>
Primes257 == <<<<1, 74, 25, 78, 190, 118, 204, 66, 202, 130, 12, 102, 3,
    116, 81, 97, 197, 13, 216, 64, 163, 192, 21, 183, 222, 189, 160, 128,
    120, 213, 56, 82, 201>>, <<1, 213, 237, 218, 49, 253, 70, 151, 89, 175,
    98, 66, 28, 44, 213, 226, 36, 187, 50, 136, 217, 4, 56, 61, 141, 206,
    237, 228, 87, 198, 101, 81, 75>>>>

\* the pairs generate_prime_pair returns after random.seed(7), for 256 and
\* 257 bits
SeededPrimes256 == <<<<207, 40, 246, 94, 64, 143, 193, 70, 121, 78, 201, 38,
    188, 158, 40, 234, 190, 232, 6, 38, 16, 232, 173, 1, 134, 167, 74, 99,
    168, 199, 217, 225>>, <<217, 150, 25, 205, 106, 252, 40, 154, 38, 78,
    90, 206, 146, 107, 231, 40, 254, 48, 75, 111, 246, 118, 73, 188, 101,
    194, 32, 231, 127, 117, 69, 193>>>>
SeededPrimes257 == <<<<1, 217, 126, 150, 123, 108, 24, 217, 130, 209, 220,
    236, 83, 33, 42, 141, 155, 193, 122, 146, 98, 69, 59, 244, 145, 46, 122,
    38, 233, 199, 108, 96, 63>>, <<1, 145, 72, 41, 250, 127, 109, 136, 57,
    13, 251, 111, 58, 233, 240, 239, 65, 239, 17, 90, 27, 148, 10, 22, 36,
    164, 74, 179, 173, 144, 251, 45, 125>>>>

\* the pair the next generate_prime_pair(256, secure=False) returns after
\* random.seed(7) and one generate_prime_pair(256, secure=False)
SeededPrimes256Next == <<<<193, 27, 251, 227, 195, 111, 230, 136, 201, 150,
    193, 48, 2, 170, 147, 206, 88, 3, 178, 120, 147, 44, 32, 127, 59, 81,
    171, 124, 220, 241, 103, 99>>, <<172, 183, 8, 200, 236, 13, 13, 1, 15,
    135, 215, 97, 71, 235, 48, 27, 90, 43, 74, 3, 40, 101, 116, 73, 182,
    121, 83, 255, 46, 241, 52, 119>>>>

-----------------------------------------------------------------------------
(* The module `random`: one generator for the whole process.  Its state is *)
(* decided by the seed it was last given (None: the seed the interpreter   *)
(* took from the operating system at import) and by what was drawn since:  *)
(* used lists the bit lengths of the prime pairs drawn, each pair standing *)
(* for all the getrandbits and randint calls of its generate_prime_pair.   *)

Unseeded == [seed |-> None, used |-> <<>>]

\* random.seed(seed) leaving what was drawn before in place
random_seed_continued(state, seed) == [seed |-> Some(seed), used |-> state.used]

\* random.seed(seed): the state after it, whatever the state before
random_seed(state, seed) == [seed |-> Some(seed), used |-> <<>>]

-----------------------------------------------------------------------------
(* The padding codec on its own: a caller pads a message, may corrupt one  *)
(* byte of the padding string of the buffer it holds, and unpads it.       *)

MaxMessageLen == 2
MinTargetLength == 10
MaxTargetLength == 13
MessageBytes == {0, 255}
CorruptValues == {0, 1, 255}
PaddingTypes == {"encryption", "signature", "raw"}
SessionIds == {"3f9a", "c41e"}

RECURSIVE BytesUpTo(_, _)
BytesUpTo(alphabet, len) ==
  IF len = 0 THEN {<<>>}
  ELSE LET shorter == BytesUpTo(alphabet, len - 1)
       IN shorter \cup {Append(m, b) : m \in {x \in shorter : Len(x) = len - 1},
                                      b \in alphabet}

\* no engine is constructed
InitPad ==
  /\ key_pair = None
  /\ session_id = None
  /\ call = [op |-> "new"]
  /\ held = None
  /\ engine_b = None
  /\ random_state = Unseeded
  /\ random_alone = Unseeded

\* The caller pads a message and keeps the buffer.
ApplyPadding(message, target_length, padding_type, stream) ==
  LET result == apply_pkcs1_padding(message, target_length, padding_type, stream)
  IN /\ call.op = "new"
     /\ call' = [op |-> "apply_pkcs1_padding", message |-> message,
                 target_length |-> target_length, padding_type |-> padding_type,
                 result |-> result]
     /\ held' = IF result.ok
                THEN Some([buffer |-> result.val, message |-> message,
                           padding_type |-> padding_type, corrupted |-> None])
                ELSE None
     /\ UNCHANGED <<key_pair, session_id, elsewhere>>

\* The caller overwrites byte `index` (counted from 0) of the padding string
\* of the buffer it holds with another value.
CorruptPaddingByte(index, value) ==
  /\ held # None
  /\ held[1].corrupted = None
  /\ index >= 2
  /\ index < Len(held[1].buffer) - Len(held[1].message) - 1
  /\ held[1].buffer[index + 1] # value
  /\ held' = Some([held[1] EXCEPT !.buffer[index + 1] = value,
                                  !.corrupted = Some([index |-> index, value |-> value])])
  /\ UNCHANGED <<key_pair, session_id, call, elsewhere>>

\* The caller unpads the buffer it holds.
RemovePadding(padding_type) ==
  /\ held # None
  /\ call' = [op |-> "remove_pkcs1_padding", padded_message |-> held[1].buffer,
              padding_type |-> padding_type, source |-> held[1],
              result |-> remove_pkcs1_padding(held[1].buffer, padding_type)]
  /\ held' = None
  /\ UNCHANGED <<key_pair, session_id, elsewhere>>

\* the buffer, the buffer with its first byte or its block type changed, and
\* the buffer cut to 10 bytes, after its separator, and before it
Analysed(buffer, message) ==
  {buffer, [buffer EXCEPT ![1] = 1], [buffer EXCEPT ![2] = 3],
   [buffer EXCEPT ![2] = 3 - buffer[2]],
   SubSeq(buffer, 1, 10),
   SubSeq(buffer, 1, Len(buffer) - Len(message)),
   SubSeq(buffer, 1, Len(buffer) - Len(message) - 1)}

\* The caller has the buffer it holds, or a buffer made from it, analysed.
VerifyPaddingIntegrity(padded_message) ==
  /\ held # None
  /\ call' = [op |-> "verify_padding_integrity",
              padded_message |-> padded_message,
              result |-> Ok(verify_padding_integrity(padded_message))]
  /\ held' = None
  /\ UNCHANGED <<key_pair, session_id, elsewhere>>

NextPad ==
  \/ \E message \in BytesUpTo(MessageBytes, MaxMessageLen),
        target_length \in MinTargetLength..MaxTargetLength,
        padding_type \in PaddingTypes, stream \in RandomStreams :
       ApplyPadding(message, target_length, padding_type, stream)
  \/ \E index \in 0..MaxTargetLength, value \in CorruptValues :
       CorruptPaddingByte(index, value)
  \/ \E padding_type \in PaddingTypes : RemovePadding(padding_type)
  \/ /\ held # None
     /\ \E padded_message \in Analysed(held[1].buffer, held[1].message) :
          VerifyPaddingIntegrity(padded_message)

SpecPad == InitPad /\ [][NextPad]_vars

\* remove_pkcs1_padding was called on a buffer as apply_pkcs1_padding returned
\* it, with the block type it was padded with
Unpadded ==
  /\ call.op = "remove_pkcs1_padding"
  /\ call.padding_type = call.source.padding_type
  /\ call.padding_type \in {"encryption", "signature"}

\* C1: unpadding what apply_pkcs1_padding returned, with the same block type,
\* returns exactly the message that was padded, for every message and target
\* length apply_pkcs1_padding accepts.
C1_PadUnpadIdentity ==
  (Unpadded /\ call.source.corrupted = None)
    => call.result = Ok(call.source.message)

\* remove_pkcs1_padding was called on a padded buffer of which one byte of
\* the padding string was corrupted the way the claim says: set to 0x00
\* (encryption), changed to a value other than 0xFF (signature).
UnpaddedCorrupted ==
  /\ Unpadded
  /\ call.source.corrupted # None
  /\ call.padding_type = "encryption" => call.source.corrupted[1].value = 0

C23_ValidIffUnpadded ==
  call.op = "verify_padding_integrity" =>
    /\ call.result.ok
    /\ call.result.val.valid
         <=> /\ Len(call.padded_message) >= 2
             /\ call.padded_message[2] \in {1, 2}
             /\ remove_pkcs1_padding(
                  call.padded_message,
                  IF call.padded_message[2] = 2 THEN "encryption"
                  ELSE "signature").ok

-----------------------------------------------------------------------------
(* The engine.  Init is an engine as __init__ leaves it; the caller holds  *)
(* nothing.  What a call returns is kept by the caller together with what  *)
(* it was made from, so that a later call can be given it.                 *)

InitEngine ==
  /\ key_pair = None
  /\ session_id \in SessionIds
  /\ call = [op |-> "new"]
  /\ held = None
  /\ engine_b = None
  /\ random_state = Unseeded
  /\ random_alone = Unseeded

\* load_key_pair(key_pair)
LoadKeyPair(kp) ==
  /\ key_pair' = Some(kp)
  /\ call' = [op |-> "load_key_pair", key_pair |-> kp]
  /\ held' = None
  /\ UNCHANGED <<session_id, elsewhere>>

\* the key pair without its private exponent, as RSAKeyPair((e, n)) builds it
PublicOnly(kp) == RSAKeyPair(kp.public_key, None, None)

HasPrivateKey == key_pair # None /\ key_pair[1].private_key # None

\* what the caller keeps of a call that returned
Kept(result, op, input) ==
  IF result.ok
  THEN Some([value |-> result.val, of |-> op, input |-> input, key |-> key_pair])
  ELSE None

\* the value the caller holds is what `op` returned under the loaded key
Holds(op) ==
  /\ held # None
  /\ "of" \in DOMAIN held[1]
  /\ held[1].of = op
  /\ held[1].key = key_pair

EncryptNumber(message, source) ==
  /\ call' = [op |-> "encrypt_number", message |-> message, source |-> source,
              result |-> encrypt_number(key_pair, message)]
  /\ held' = Kept(call'.result, "encrypt_number", message)
  /\ UNCHANGED <<key_pair, session_id, elsewhere>>

\* decrypt_number dropping the key pair it cannot decrypt with
DecryptNumber_dropping_key(ciphertext, source) ==
  /\ call' = [op |-> "decrypt_number", ciphertext |-> ciphertext,
              source |-> source,
              result |-> decrypt_number(key_pair, ciphertext)]
  /\ held' = Kept(call'.result, "decrypt_number", ciphertext)
  /\ key_pair' = IF call'.result.ok THEN key_pair ELSE None
  /\ UNCHANGED <<session_id, elsewhere>>

DecryptNumber(ciphertext, source) ==
  /\ call' = [op |-> "decrypt_number", ciphertext |-> ciphertext,
              source |-> source,
              result |-> decrypt_number(key_pair, ciphertext)]
  /\ held' = Kept(call'.result, "decrypt_number", ciphertext)
  /\ UNCHANGED <<key_pair, session_id, elsewhere>>

EncryptText(message, stream) ==
  /\ call' = [op |-> "encrypt_text", message |-> message,
              result |-> encrypt_text(key_pair, message, stream)]
  /\ held' = Kept(call'.result, "encrypt_text", message)
  /\ UNCHANGED <<key_pair, session_id, elsewhere>>

\* decrypt_text of the ciphertext the caller holds, re-encoded with `leading`
\* zero bytes put before its bytes (-1: with its first byte, a zero, removed)
DecryptText(leading) ==
  LET resized(encrypted_bytes) ==
        IF leading < 0 THEN Tail(encrypted_bytes)
        ELSE [i \in 1..leading |-> 0] \o encrypted_bytes
      decrypt(encrypted_message) ==
        [op |-> "decrypt_text", encrypted_message |-> encrypted_message,
         leading |-> leading, source |-> held[1],
         result |-> decrypt_text(key_pair, encrypted_message)]
  IN /\ Holds("encrypt_text")
     /\ leading < 0 => decode_base64(held[1].value).val[1] = 0
     /\ call' = decrypt(IF leading = 0 THEN held[1].value
                        ELSE encode_base64(
                               resized(decode_base64(held[1].value).val)))
     /\ held' = None
     /\ UNCHANGED <<key_pair, session_id, elsewhere>>

EncryptLongText(message, stream) ==
  /\ call' = [op |-> "encrypt_long_text", message |-> message,
              result |-> encrypt_long_text(key_pair, message, stream)]
  /\ held' = Kept(call'.result, "encrypt_long_text", message)
  /\ UNCHANGED <<key_pair, session_id, elsewhere>>

\* decrypt_long_text of the blocks the caller holds
DecryptLongText ==
  /\ Holds("encrypt_long_text")
  /\ call' = [op |-> "decrypt_long_text", encrypted_blocks |-> held[1].value,
              source |-> held[1],
              result |-> decrypt_long_text(key_pair, held[1].value)]
  /\ held' = None
  /\ UNCHANGED <<key_pair, session_id, elsewhere>>

-----------------------------------------------------------------------------
(* Text encryption: one key pair is loaded, a text is encrypted, and what  *)
(* encryption returned is decrypted.  The keys are a 96-bit pair (blocks   *)
(* of 12 bytes, 1 byte of text each), the same without its private         *)
(* exponent, an 87-bit pair (11 bytes, no room for text) and the pair of   *)
(* the primes 5 and 11.                                                    *)

\* key pairs with and without their private exponent
WithPublicOnly(keys) == keys \cup {PublicOnly(kp) : kp \in keys}

KeyTiny == RSAKeyPair(<<<<3>>, <<55>>>>, Some(<<27>>), Some(<<55>>))
TextKeys ==
  WithPublicOnly({BuildKeyPair(pq[1], pq[2]).val : pq \in {Primes48, Primes44}})
    \cup {KeyTiny}

\* '', 'a', 'é', 'ab', 'a€'
Texts == {<<>>, <<97>>, <<233>>, <<97, 98>>, <<97, 8364>>}

MaxLeadingZeros == 1

NextText ==
  \/ /\ key_pair = None
     /\ \E kp \in TextKeys : LoadKeyPair(kp)
  \/ /\ call.op = "load_key_pair"
     /\ \E message \in Texts, stream \in RandomStreams :
          EncryptText(message, stream)
  \/ \E leading \in (-1)..MaxLeadingZeros : DecryptText(leading)
  \/ /\ call.op = "load_key_pair"
     /\ \E message \in Texts, stream \in RandomStreams :
          EncryptLongText(message, stream)
  \/ DecryptLongText

SpecText == InitEngine /\ [][NextText]_vars

ByteLength == calculate_byte_length(key_size(key_pair[1]))

\* C3: with a private exponent loaded, encrypt_text accepts every text of
\* 0 to byte_length - 11 encoded bytes, and decrypt_text of what it returned
\* is the text.
C3_TextRoundTrip ==
  /\ (/\ call.op = "encrypt_text"
      /\ HasPrivateKey
      /\ Len(str_encode(call.message)) <= ByteLength - 11)
       => call.result.ok
  /\ (call.op = "decrypt_text" /\ call.leading = 0 /\ HasPrivateKey)
       => call.result = Ok(call.source.input)

\* C4: with a private exponent loaded, encrypt_long_text accepts every text
\* and decrypt_long_text of the blocks it returned is the text.
C4_LongTextRoundTrip ==
  /\ (call.op = "encrypt_long_text" /\ HasPrivateKey) => call.result.ok
  /\ (call.op = "decrypt_long_text" /\ HasPrivateKey)
       => call.result = Ok(call.source.input)

\* C18: decrypt_text raises for a ciphertext whose base64-decoded bytes are
\* not exactly byte_length(key_size) bytes, such as a ciphertext
\* encrypt_text returned with zero bytes put before its bytes or with its
\* leading zero byte removed.
C18_OtherWidthRejected ==
  (/\ call.op = "decrypt_text"
   /\ HasPrivateKey
   /\ Len(decode_base64(call.encrypted_message).val) # ByteLength)
    => ~call.result.ok

-----------------------------------------------------------------------------
(* Numbers: a key pair built the way generate_key_pair builds it, from two *)
(* small primes, is loaded; a number is encrypted and the result decrypted,*)
(* or decrypted and the result encrypted.                                  *)

MaxSmallPrime == 12

\* the odd primes up to MaxSmallPrime
SmallPrimes ==
  {p \in 3..MaxSmallPrime : \A k \in 2..(p - 1) : p % k # 0}

NumberKeys ==
  {BuildKeyPair(IntToBig(pq[1]), IntToBig(pq[2])).val :
     pq \in {pq \in SmallPrimes \X SmallPrimes : pq[1] # pq[2]}}

NextNumber ==
  \/ /\ key_pair = None
     /\ \E kp \in NumberKeys : LoadKeyPair(kp)
  \/ /\ call.op = "load_key_pair"
     /\ \E x \in 0..BigToInt(key_pair[1].modulus) :
          EncryptNumber(IntToBig(x), None)
  \/ /\ call.op = "load_key_pair"
     /\ \E x \in 0..BigToInt(key_pair[1].modulus) :
          DecryptNumber(IntToBig(x), None)
  \/ /\ Holds("decrypt_number")
     /\ call.source = None
     /\ EncryptNumber(held[1].value, Some(held[1]))
  \/ /\ Holds("encrypt_number")
     /\ call.source = None
     /\ DecryptNumber(held[1].value, Some(held[1]))

SpecNumber == InitEngine /\ [][NextNumber]_vars

\* C5: under a key pair built as generate_key_pair builds it, for
\* 0 <= x < n, decrypting what encrypt_number(x) returned gives x, and
\* encrypting what decrypt_number(x) returned gives x.
C5_NumberRoundTrip ==
  (/\ call.op \in {"encrypt_number", "decrypt_number"}
   /\ call.source # None
   /\ BigLess(call.source[1].input, key_pair[1].modulus))
    => call.result = Ok(call.source[1].input)

\* a number was encrypted and decrypted back, another decrypted and encrypted
\* back; the witness is the second, for a number that shares a factor with n
C5_Witness ==
  /\ call.op = "encrypt_number"
  /\ call.source # None
  /\ call.source[1].input # <<>>
  /\ gcd(call.source[1].input, key_pair[1].modulus) # <<1>>
  /\ call.result = Ok(call.source[1].input)

-----------------------------------------------------------------------------
(* Key generation: generate_key_pair is called on a new engine.            *)
(* generate_prime_pair(bit_length) returns two distinct primes of that     *)
(* bit length: any two of the primes above when the generator is not       *)
(* seeded, the pair the seeded generator returns otherwise.                *)

Seed == 7
KeySizes == {511, 512, 513, 514}
Seeds == {None, Some(Seed)}

PrimePool(bit_length) ==
  IF bit_length = 256 THEN Primes256
  ELSE IF bit_length = 257 THEN Primes257
  ELSE <<>>

\* the pair generate_prime_pair(bit_length, secure=False) returns from the
\* generator seeded with Seed after the pairs of used were drawn: SeededPrimes256
\* and SeededPrimes257 hold for no pair drawn, SeededPrimes256Next for one of 256 bits
SeededPair(bit_length, used) ==
  IF used # <<>> THEN SeededPrimes256Next
  ELSE IF bit_length = 256 THEN SeededPrimes256 ELSE SeededPrimes257

\* the pairs generate_prime_pair(bit_length, secure) may return with the
\* generator of `random` in state
generate_prime_pair(bit_length, secure, state) ==
  IF state.seed # None /\ ~secure THEN {SeededPair(bit_length, state.used)}
  ELSE {<<PrimePool(bit_length)[ij[1]], PrimePool(bit_length)[ij[2]]>> :
          ij \in {ij \in (1..Len(PrimePool(bit_length)))
                            \X (1..Len(PrimePool(bit_length))) : ij[1] # ij[2]}}

\* the generator of `random` in generate_key_pair(key_size, seed, secure)
\* entered in state: at the call of generate_prime_pair, and on return
generator(size, seed, secure, state) ==
  LET drawn(at) ==
        [draw |-> at,
         after |-> IF secure THEN at
                   ELSE [at EXCEPT !.used = Append(@, size \div 2)]]
  IN IF size < MinKeySize THEN [draw |-> state, after |-> state]
     ELSE IF seed # None /\ ~secure THEN drawn(random_seed(state, seed[1]))
     ELSE drawn(state)

\* generate_key_pair(key_size, seed, secure) on engine "A" or "B",
\* generate_prime_pair returning pq; alone_pq is what it returns had the calls
\* on engine "A" not been made
Generate(engine, size, seed, secure, pq, alone_pq) ==
  /\ call' = [op |-> "generate_key_pair", engine |-> engine,
              key_size |-> size, seed |-> seed, secure |-> secure,
              entered |-> random_state, primes |-> pq,
              alone_primes |-> alone_pq,
              result |-> generate_key_pair(size, pq),
              nth |-> IF call.op = "generate_key_pair" THEN call.nth + 1 ELSE 1]
  /\ key_pair' = IF engine = "A" /\ call'.result.ok
                 THEN Some(call'.result.val) ELSE key_pair
  /\ engine_b' = IF engine = "B" /\ call'.result.ok
                 THEN Some(call'.result.val) ELSE engine_b
  /\ random_state' = generator(size, seed, secure, random_state).after
  /\ random_alone' = IF engine = "B"
                     THEN generator(size, seed, secure, random_alone).after
                     ELSE random_alone
  /\ held' = IF held = None /\ seed # None /\ ~secure /\ call'.result.ok
             THEN Some([engine |-> engine, key_size |-> size, seed |-> seed,
                        result |-> call'.result])
             ELSE held
  /\ UNCHANGED session_id

\* generate_key_pair(key_size, seed, secure) on a new engine
GenerateKeyPair(size, seed, secure, pq) ==
  /\ call.op = "new"
  /\ Generate("A", size, seed, secure, pq, pq)

NextKeyGen ==
  \E size \in KeySizes, seed \in Seeds, secure \in BOOLEAN :
    \E pq \in (IF size < MinKeySize THEN {<<>>}
               ELSE generate_prime_pair(
                      size \div 2, secure,
                      generator(size, seed, secure, random_state).draw)) :
      GenerateKeyPair(size, seed, secure, pq)

SpecKeyGen == InitEngine /\ [][NextKeyGen]_vars

\* (p - 1) * (q - 1) of the primes of the last call
PhiOfCall == BigMul(BigSub(call.primes[1], <<1>>), BigSub(call.primes[2], <<1>>))

\* C9: generate_key_pair, once past its key size check, returns a key pair
\* (modular_inverse does not raise) whose exponents satisfy
\* e * d = 1 mod (p - 1)(q - 1) with 0 <= d < (p - 1)(q - 1), for the primes
\* p # q of the call.
C9_PrivateExponentInverse ==
  (call.op = "generate_key_pair" /\ call.key_size >= MinKeySize) =>
    /\ call.result.ok
    /\ call.primes[1] # call.primes[2]
    /\ key_pair = Some(call.result.val)
    /\ BigMod(BigMul(call.result.val.public_key[1],
                     call.result.val.private_key[1]), PhiOfCall) = <<1>>
    /\ BigLess(call.result.val.private_key[1], PhiOfCall)

\* a key pair was generated from primes for which no preferred exponent is
\* coprime to phi: the exponent is the 5 the search loop finds
C9_Witness ==
  /\ call.op = "generate_key_pair"
  /\ call.result.ok
  /\ call.result.val.public_key[1] = <<5>>
  /\ gcd(PreferredExponents[1], PhiOfCall) # <<1>>
  /\ BigMod(BigMul(<<5>>, call.result.val.private_key[1]), PhiOfCall) = <<1>>

-----------------------------------------------------------------------------
(* Signatures: a key pair is loaded or none is; a message is signed; the   *)
(* signature is verified as it is, for the same or another message, or     *)
(* after one byte of its decoded form was changed; arbitrary strings are   *)
(* verified as signatures.  The key pair has a 343-bit modulus (blocks of  *)
(* 43 bytes, the least that hold a padded SHA-256 digest) and the public   *)
(* exponent 3.                                                             *)

\* the key pair of the primes p, q and the public exponent e
KeyPairOf(p, q, e) ==
  LET store(n, phi_n) ==
        RSAKeyPair(<<e, n>>, Some(modular_inverse(SPos(e), phi_n).val), Some(n))
  IN store(BigMul(p, q), BigMul(BigSub(p, <<1>>), BigSub(q, <<1>>)))

SigKeys == WithPublicOnly({KeyPairOf(Primes172[1], Primes172[2], <<3>>)})

\* '', 'a', 'hi'
SigTexts == {<<>>, <<97>>, <<104, 105>>}
SignedText == <<104, 105>>
HashNames == HashAlgorithms \cup {"md5"}
TamperValues == {0, 255}
MaxSignatureLen == 43

\* '', 'AQ==' (the number 1), 'AQ=' (truncated), '!' and a non-ASCII character
RawSignatures == {<<>>, <<0, 16, 64, 64>>, <<0, 16, 64>>, <<65>>, <<66>>}

InitSig == InitEngine /\ session_id = "3f9a"

SignMessage(message, hash_algorithm) ==
  /\ call' = [op |-> "sign_message", message |-> message,
              hash_algorithm |-> hash_algorithm,
              result |-> sign_message(key_pair, message, hash_algorithm)]
  /\ held' = Kept(call'.result, "sign_message",
                  [message |-> message, hash_algorithm |-> hash_algorithm])
  /\ UNCHANGED <<key_pair, session_id, elsewhere>>

\* The caller changes byte `index` (counted from 0) of the decoded signature
\* it holds to `value` and encodes it again.
TamperSignature(index, value) ==
  LET changed(bytes) == encode_base64([bytes EXCEPT ![index + 1] = value])
      differs(bytes) == index < Len(bytes) /\ bytes[index + 1] # value
  IN /\ Holds("sign_message")
     /\ differs(decode_base64(held[1].value).val)
     /\ held' = Some([held[1] EXCEPT
                        !.value = changed(decode_base64(held[1].value).val),
                        !.of = "tampered_signature"])
     /\ UNCHANGED <<key_pair, session_id, call, elsewhere>>

\* verify_signature(message, signature, hash_algorithm); source is what the
\* caller held when the signature is the one it holds
VerifySignature(message, signature, hash_algorithm, source) ==
  /\ call' = [op |-> "verify_signature", message |-> message,
              signature |-> signature, hash_algorithm |-> hash_algorithm,
              source |-> source,
              result |-> verify_signature(key_pair, message, signature,
                                          hash_algorithm)]
  /\ held' = None
  /\ UNCHANGED <<key_pair, session_id, elsewhere>>

VerifyHeld(message, hash_algorithm) ==
  VerifySignature(message, held[1].value, hash_algorithm, Some(held[1]))

NextSig ==
  \/ /\ key_pair = None
     /\ call.op = "new"
     /\ \E kp \in SigKeys : LoadKeyPair(kp)
  \/ /\ call.op \in {"new", "load_key_pair"}
     /\ \E hash_algorithm \in HashNames : SignMessage(SignedText, hash_algorithm)
  \/ \E index \in 0..(MaxSignatureLen - 1), value \in TamperValues :
       TamperSignature(index, value)
  \/ /\ Holds("sign_message")
     /\ \E message \in SigTexts, hash_algorithm \in HashNames :
          VerifyHeld(message, hash_algorithm)
  \/ /\ Holds("tampered_signature")
     /\ VerifyHeld(held[1].input.message, held[1].input.hash_algorithm)
  \/ /\ call.op \in {"new", "load_key_pair"}
     /\ \E message \in SigTexts, signature \in RawSignatures,
           hash_algorithm \in HashNames :
          VerifySignature(message, signature, hash_algorithm, None)

SpecSig == InitSig /\ [][NextSig]_vars

\* C6: verify_signature returns a boolean in every engine state, whatever
\* the message, the signature string and the hash algorithm name.
C6_VerifyNeverRaises ==
  call.op = "verify_signature"
    => (call.result.ok /\ call.result.val \in BOOLEAN)

\* verify_signature was given a signature sign_message returned, changed or
\* not
VerifiedSigned == call.op = "verify_signature" /\ call.source # None

\* the digest verify_signature computes is not the one that was signed
DigestDiffers ==
  /\ call.hash_algorithm \in HashAlgorithms
  /\ digest(call.hash_algorithm, str_encode(call.message))
       # digest(call.source[1].input.hash_algorithm,
                str_encode(call.source[1].input.message))

\* C8: verify_signature returns False, and does not raise, for a signature
\* sign_message returned when the digest of the message it is given differs
\* from the signed one, and for that signature with one byte of its decoded
\* form changed.
C8_AlteredRejected ==
  (/\ VerifiedSigned
   /\ (call.source[1].of = "tampered_signature" \/ DigestDiffers))
    => call.result = Ok(FALSE)

\* a signature whose first byte was set to 0xFF, so that its integer is not
\* below the modulus, was rejected
C8_Witness ==
  /\ VerifiedSigned
  /\ call.source[1].of = "tampered_signature"
  /\ ~BigLess(bytes_to_int(decode_base64(call.signature).val),
              key_pair[1].modulus)
  /\ call.result = Ok(FALSE)

-----------------------------------------------------------------------------
(* Signing under a 512-bit key pair, the smallest generate_key_pair        *)
(* builds: the digests signed are those of SHA-512 and of an unknown       *)
(* algorithm.                                                              *)

SigKeys512 == WithPublicOnly({BuildKeyPair(Primes256[1], Primes256[4]).val})
LongHashNames == {"sha512", "md5"}

NextSign512 ==
  \/ /\ key_pair = None
     /\ call.op = "new"
     /\ \E kp \in SigKeys512 : LoadKeyPair(kp)
  \/ /\ call.op \in {"new", "load_key_pair"}
     /\ \E message \in SigTexts, hash_algorithm \in LongHashNames :
          SignMessage(message, hash_algorithm)
  \/ /\ call.op \in {"new", "load_key_pair"}
     /\ \E message \in SigTexts, signature \in RawSignatures,
           hash_algorithm \in HashNames :
          VerifySignature(message, signature, hash_algorithm, None)

SpecSign512 == InitEngine /\ [][NextSign512]_vars

\* C7: under a key pair with a private exponent and a key size of at least
\* 512 bits, sign_message returns for sha256, sha384 and sha512, and
\* verify_signature of the message and that signature returns True;
\* sign_message raises only without a private key or for another algorithm
\* name.
C7_SignThenVerify ==
  /\ (/\ call.op = "sign_message"
      /\ HasPrivateKey
      /\ key_size(key_pair[1]) >= MinKeySize
      /\ call.hash_algorithm \in HashAlgorithms)
       => call.result.ok
  /\ (call.op = "sign_message" /\ ~call.result.ok)
       => (~HasPrivateKey \/ call.hash_algorithm \notin HashAlgorithms)
  /\ (/\ VerifiedSigned
      /\ call.source[1].of = "sign_message"
      /\ call.message = call.source[1].input.message
      /\ call.hash_algorithm = call.source[1].input.hash_algorithm)
       => call.result = Ok(TRUE)

-----------------------------------------------------------------------------
(* The primality test on its own: miller_rabin_test(n, k) is called once,  *)
(* on the primes up to 97, the composites 4, 9, 561 and 1105, on 0 and 1,  *)
(* on the prime 331 and on its square, with k >= 20 rounds.                *)

Rounds == 20
MaxExtraRounds == 1
MaxListedPrime == 97
ListedPrimes == {n \in 2..MaxListedPrime : \A k \in 2..(n - 1) : n % k # 0}
ListedComposites == {4, 9, 561, 1105}
Candidates == ListedPrimes \cup ListedComposites \cup {0, 1, 331, 109561}
RandomSources == {[start |-> start, step |-> step] :
                    start \in {0, 16, 48}, step \in {0, 1}}

MillerRabinTest(n, k, source) ==
  /\ call.op = "new"
  /\ call' = [op |-> "miller_rabin_test", n |-> n, k |-> k, source |-> source,
              result |-> miller_rabin_test(IntToBig(n), k, source)]
  /\ UNCHANGED <<key_pair, session_id, held, elsewhere>>

\* primes that SMALL_PRIMES does not list
PrimesAboveTable == {337, 65537}
\* primes tested with every base of [2, n - 2], one base per round
PrimesOfEveryBase == {331, 337}
EveryBase == [start |-> 0, step |-> 1]

\* what generate_random_odd draws for a candidate of bit_length bits
CandidateBits(bit_length, secure) ==
  IF secure
  THEN IF bit_length = 9 THEN {<<0, 79>>, <<1, 81>>, <<255, 255>>}
       ELSE {<<7, 255>>, <<4, 7>>}
  ELSE IF bit_length = 9 THEN {79, 81, 91} ELSE {1023, 7}
MaxTurns == 2
Turns(bit_length, secure) ==
  LET turn == {[drawn |-> drawn, source |-> source] :
                 drawn \in CandidateBits(bit_length, secure),
                 source \in {s \in RandomSources : s.start = 0}}
  IN UNION {[1..turns -> turn] : turns \in 1..MaxTurns}

GeneratePrime(bit_length, secure, draws) ==
  /\ call.op = "new"
  /\ call' = [op |-> "generate_prime", bit_length |-> bit_length,
              secure |-> secure, draws |-> draws,
              returned |-> generate_prime(bit_length, secure, draws)]
  /\ UNCHANGED <<key_pair, session_id, held, elsewhere>>

NextPrime ==
  \/ \E n \in Candidates \cup PrimesAboveTable,
         k \in {0} \cup (Rounds..(Rounds + MaxExtraRounds)),
         source \in RandomSources :
        MillerRabinTest(n, k, source)
  \/ \E n \in PrimesOfEveryBase : MillerRabinTest(n, n - 3, EveryBase)
  \/ \E bit_length \in {9, 11}, secure \in BOOLEAN :
        \E draws \in Turns(bit_length, secure) :
          GeneratePrime(bit_length, secure, draws)

SpecPrime == InitPad /\ [][NextPrime]_vars

\* C10: miller_rabin_test(n, k) with k >= 20 returns True for the primes
\* 2..97 and False for 4, 9, 561 and 1105, whatever bases the random source
\* draws.
C10_ListedNumbersDecided ==
  (call.op = "miller_rabin_test" /\ call.k >= Rounds) =>
    /\ call.n \in ListedPrimes => call.result = TRUE
    /\ call.n \in ListedComposites => call.result = FALSE

\* C20: miller_rabin_test(n, k) returns False for every n >= 2 that a prime
\* of SMALL_PRIMES other than n itself divides, for every k >= 0 and whatever
\* bases the random source draws.
C20_SmallPrimeMultipleRejected ==
  (/\ call.op = "miller_rabin_test"
   /\ call.n >= 2
   /\ \E i \in 1..Len(SMALL_PRIMES) :
        call.n % SMALL_PRIMES[i] = 0 /\ call.n # SMALL_PRIMES[i])
    => call.result = FALSE

IsPrime(n) == n >= 2 /\ \A k \in 2..(n - 1) : n % k # 0

\* C25: miller_rabin_test(n, k) returns True for every prime n, listed in
\* SMALL_PRIMES or not, for every k and whatever bases of [2, n - 2] the
\* random source draws; so a turn of generate_prime's loop that draws a prime
\* candidate is its last one, and the prime is what generate_prime returns.
C25_PrimeNeverRejected ==
  /\ (call.op = "miller_rabin_test" /\ IsPrime(call.n)) => call.result = TRUE
  /\ call.op = "generate_prime" =>
       \A i \in 1..Len(call.returned.candidates) :
         IsPrime(call.returned.candidates[i]) =>
           /\ i = Len(call.returned.candidates)
           /\ call.returned.result = Some(call.returned.candidates[i])

\* a composite candidate was rejected, and the prime drawn next, which is
\* above the last prime of SMALL_PRIMES, was returned
C25_Witness ==
  /\ call.op = "generate_prime"
  /\ call.returned.candidates = <<335, 337>>
  /\ call.returned.result = Some(337)
  /\ 337 > SMALL_PRIMES[Len(SMALL_PRIMES)]
  /\ miller_rabin_test(IntToBig(335), 20, call.draws[1].source) = FALSE

-----------------------------------------------------------------------------
(* Two engines of one process: generate_key_pair is called up to MaxCalls  *)
(* times, each time on either engine, with or without the seed, with the   *)
(* secure or the non-secure source.                                        *)

MaxCalls == 3
EngineKeySize == 512

\* the pairs drawn in this scenario: the seeded ones, and one pair the
\* operating system's entropy leads to
EnginePairs ==
  {SeededPrimes256, SeededPrimes256Next, <<Primes256[1], Primes256[4]>>}

NextEngines ==
  /\ call.op = "generate_key_pair" => call.nth < MaxCalls
  /\ \E engine \in {"A", "B"}, seed \in Seeds, secure \in BOOLEAN :
       /\ secure \/ Len(generator(EngineKeySize, seed, secure, random_state).draw.used) <= 1
       /\ \E pq \in EnginePairs \cap generate_prime_pair(
                      EngineKeySize \div 2, secure,
                      generator(EngineKeySize, seed, secure, random_state).draw) :
            \E alone_pq \in EnginePairs \cap generate_prime_pair(
                              EngineKeySize \div 2, secure,
                              generator(EngineKeySize, seed, secure, random_alone).draw) :
              /\ pq \in generate_prime_pair(
                          EngineKeySize \div 2, secure,
                          generator(EngineKeySize, seed, secure, random_alone).draw)
                   => alone_pq = pq
              /\ Generate(engine, EngineKeySize, seed, secure, pq, alone_pq)

SpecEngines == InitSig /\ [][NextEngines]_vars

\* C13: a call generate_key_pair(bits, seed=s, secure=False) with bits >= 512
\* returns the (e, n, d) that the first such call with the same bits and the
\* same seed returned, whatever was called in between on either engine.
C13_SeededKeyReproduced ==
  (/\ call.op = "generate_key_pair"
   /\ call.key_size >= MinKeySize
   /\ call.seed # None
   /\ ~call.secure
   /\ held # None
   /\ held[1].key_size = call.key_size
   /\ held[1].seed = call.seed)
    => /\ call.result.ok
       /\ call.result.val.public_key = held[1].result.val.public_key
       /\ call.result.val.private_key = held[1].result.val.private_key
       /\ call.result.val.modulus = held[1].result.val.modulus

\* the third call, on engine B, repeats the seeded call made first on engine
\* A, after the generator was seeded and drawn from in between
C13_Witness ==
  /\ call.op = "generate_key_pair"
  /\ call.nth = 3
  /\ call.engine = "B"
  /\ call.seed = Some(Seed)
  /\ ~call.secure
  /\ call.entered = [seed |-> Some(Seed), used |-> <<256, 256>>]
  /\ held # None
  /\ held[1].engine = "A"
  /\ call.result = held[1].result
  /\ BigMul(SeededPrimes256[1], SeededPrimes256[2]) = call.result.val.modulus

\* C19: what a call on engine B returns is what it returns when the calls on
\* engine A are not made.
C19_EnginesIndependent ==
  (/\ call.op = "generate_key_pair"
   /\ call.engine = "B"
   /\ call.alone_primes # call.primes)
    => call.result = generate_key_pair(call.key_size, call.alone_primes)

-----------------------------------------------------------------------------
(* Keys come and go: on one engine a key pair is generated, loaded as an   *)
(* object, or loaded from a public or a private key string, in any order,  *)
(* and numbers are encrypted and decrypted in between.                     *)

\* the key pairs loaded as objects or exported to strings
LoadedKeys == {KeyTiny, BuildKeyPair(<<7>>, <<11>>).val}

\* the strings export_public_key and export_private_key return for them, a
\* string that is not base64, and a public key string without its "n"
KeyStrings ==
  {Ok([type |-> "RSA_PUBLIC_KEY", e |-> kp.public_key[1],
       n |-> kp.public_key[2], key_size |-> key_size(kp)]) : kp \in LoadedKeys}
    \cup {Ok([type |-> "RSA_PRIVATE_KEY", e |-> kp.public_key[1],
              n |-> kp.public_key[2], d |-> kp.private_key[1],
              key_size |-> key_size(kp)]) : kp \in LoadedKeys}
    \cup {Err("Failed to deserialize key data"),
          Ok([type |-> "RSA_PUBLIC_KEY", e |-> <<3>>])}

\* load_public_key clearing _key_pair before it parses the string
LoadPublicKey_clearing_first(key_string) ==
  /\ call' = [op |-> "load_public_key", key_string |-> key_string,
              result |-> from_public_key_string(key_string)]
  /\ key_pair' = IF call'.result.ok THEN Some(call'.result.val) ELSE None
  /\ held' = None
  /\ UNCHANGED <<session_id, elsewhere>>

\* load_public_key(public_key_str)
LoadPublicKey(key_string) ==
  /\ call' = [op |-> "load_public_key", key_string |-> key_string,
              result |-> from_public_key_string(key_string)]
  /\ key_pair' = IF call'.result.ok THEN Some(call'.result.val) ELSE key_pair
  /\ held' = None
  /\ UNCHANGED <<session_id, elsewhere>>

\* load_private_key(private_key_str)
LoadPrivateKey(key_string) ==
  /\ call' = [op |-> "load_private_key", key_string |-> key_string,
              result |-> from_private_key_string(key_string)]
  /\ key_pair' = IF call'.result.ok THEN Some(call'.result.val) ELSE key_pair
  /\ held' = None
  /\ UNCHANGED <<session_id, elsewhere>>

\* the numbers encrypted and decrypted under the loaded key (0, 1 and 55 when
\* none is loaded): 0, 1 and n under a key of 512 bits, 0, 1, 2, n - 1, n
\* and n + 1 under the others
Numbers ==
  IF key_pair = None THEN {<<>>, <<1>>, <<55>>}
  ELSE IF key_size(key_pair[1]) >= MinKeySize
  THEN {<<>>, <<1>>, key_pair[1].modulus}
  ELSE {<<>>, <<1>>, <<2>>, BigSub(key_pair[1].modulus, <<1>>),
        key_pair[1].modulus, BigAdd(key_pair[1].modulus, <<1>>)}

NextKeys ==
  \/ /\ call.op \notin {"encrypt_number", "decrypt_number", "generate_key_pair"}
     /\ \E size \in {MinKeySize - 1, MinKeySize} :
          Generate("A", size, Some(Seed), FALSE, SeededPrimes256, SeededPrimes256)
  \/ \E kp \in LoadedKeys : LoadKeyPair(kp)
  \/ \E key_string \in KeyStrings : LoadPublicKey(key_string)
  \/ \E key_string \in KeyStrings : LoadPrivateKey(key_string)
  \/ \E message \in Numbers : EncryptNumber(message, None)
  \/ \E ciphertext \in Numbers : DecryptNumber(ciphertext, None)

SpecKeys == InitSig /\ [][NextKeys]_vars

\* C17: whatever generate_key_pair, load_key_pair, load_public_key and
\* load_private_key calls came before, encrypt_number(m) raises when no key
\* is loaded or m >= n and returns m^e mod n otherwise, and decrypt_number(c)
\* raises when no key is loaded or the loaded key has no private exponent and
\* returns c^d mod n otherwise, e, n, d those of the loaded key.
C17_NumbersUnderLoadedKey ==
  /\ call.op = "encrypt_number" =>
       IF key_pair = None \/ ~BigLess(call.message, key_pair[1].public_key[2])
       THEN ~call.result.ok
       ELSE call.result = Ok(fast_modular_exponentiation(
                               call.message, key_pair[1].public_key[1],
                               key_pair[1].public_key[2]))
  /\ call.op = "decrypt_number" =>
       IF key_pair = None \/ key_pair[1].private_key = None
       THEN ~call.result.ok
       ELSE call.result = Ok(fast_modular_exponentiation(
                               call.ciphertext, key_pair[1].private_key[1],
                               key_pair[1].modulus))

\* decrypt_number was refused under a key loaded from a public key string
\* after a key pair had been generated
C17_Witness ==
  /\ call.op = "decrypt_number"
  /\ ~call.result.ok
  /\ key_pair = Some(PublicOnly(KeyTiny))
  /\ random_state.seed = Some(Seed)

\* a key string that does not decode, has another type tag than `tag`, or
\* lacks a field of `fields`
Unloadable(key_string, tag, fields) ==
  \/ ~key_string.ok
  \/ "type" \notin DOMAIN key_string.val
  \/ key_string.val["type"] # tag
  \/ ~(fields \subseteq DOMAIN key_string.val)

\* C24: a generate_key_pair with key_size < 512, and a load_public_key or
\* load_private_key of a string that does not decode, has the wrong type tag
\* or lacks a field, raises and leaves the key pair the engine held; a call
\* that returns makes what it returned the engine's one key pair.
C24_FailedCallKeepsKey ==
  [][/\ (call'.op = "generate_key_pair" /\ call'.key_size < MinKeySize)
          => ~call'.result.ok
     /\ (/\ call'.op = "load_public_key"
         /\ Unloadable(call'.key_string, "RSA_PUBLIC_KEY", {"e", "n"}))
          => ~call'.result.ok
     /\ (/\ call'.op = "load_private_key"
         /\ Unloadable(call'.key_string, "RSA_PRIVATE_KEY", {"e", "n", "d"}))
          => ~call'.result.ok
     /\ call'.op \in {"generate_key_pair", "load_public_key", "load_private_key"}
          => key_pair' = IF call'.result.ok THEN Some(call'.result.val)
                         ELSE key_pair
     /\ Len(key_pair') <= 1]_vars

\* load_private_key was given a public key string while the generated key
\* pair was loaded: it raised and the generated key pair is still loaded
C24_Witness ==
  /\ call.op = "load_private_key"
  /\ call.key_string.ok
  /\ call.key_string.val["type"] = "RSA_PUBLIC_KEY"
  /\ ~call.result.ok
  /\ key_pair # None
  /\ key_size(key_pair[1]) = MinKeySize
  /\ key_pair[1].private_key # None

-----------------------------------------------------------------------------
(* Every operation of the engine: key pairs are generated and loaded in    *)
(* any order; after a generation or a load that returned, and on a new     *)
(* engine, each operation is called, and what an encryption or a signing   *)
(* returned is decrypted or verified; get_key_info is called in every      *)
(* state.  Under the generated key pair, of MinKeySize bits, the calls are *)
(* encrypt_number, decrypt_number, verify_signature and get_key_info; the  *)
(* text and signing operations are called under the keys below MinKeySize  *)
(* bits, decrypt_text and decrypt_long_text under those of up to           *)
(* MaxDecryptedKeySize bits.                                               *)

\* get_key_info()
GetKeyInfo ==
  /\ call' = [op |-> "get_key_info",
              result |-> Ok(get_key_info(key_pair, session_id))]
  /\ UNCHANGED <<key_pair, session_id, held, elsewhere>>

MaxDecryptedKeySize == 96

\* the 96-bit pair and the 343-bit pair with the public exponent 3
FrameKeys ==
  {BuildKeyPair(Primes48[1], Primes48[2]).val,
   KeyPairOf(Primes172[1], Primes172[2], <<3>>)}

\* 'a', 'ab'
FrameTexts == {<<97>>, <<97, 98>>}

\* the random source of the paddings: a stream that holds zero bytes
FrameStreams == {<<7, 0, 0, 200, 13>>}

\* 1 and n (1 and 55 when no key pair is loaded)
FrameNumbers ==
  IF key_pair = None THEN {<<1>>, <<55>>} ELSE {<<1>>, key_pair[1].modulus}

\* the last call was the construction of the engine, or a generation or a
\* load that returned
KeyCalled ==
  \/ call.op \in {"new", "load_key_pair"}
  \/ /\ call.op \in {"generate_key_pair", "load_public_key", "load_private_key"}
     /\ call.result.ok

\* no key pair is loaded, or one of at most `bits` bits
KeySizeUpTo(bits) ==
  IF key_pair = None THEN TRUE ELSE key_size(key_pair[1]) <= bits

NextFrame ==
  \/ /\ call.op # "generate_key_pair"
     /\ \E size \in {MinKeySize - 1, MinKeySize} :
          Generate("A", size, Some(Seed), FALSE, SeededPrimes256, SeededPrimes256)
  \/ \E kp \in FrameKeys : LoadKeyPair(kp)
  \/ \E key_string \in KeyStrings : LoadPublicKey(key_string)
  \/ \E key_string \in KeyStrings : LoadPrivateKey(key_string)
  \/ GetKeyInfo
  \/ /\ KeyCalled
     /\ \E message \in FrameNumbers : EncryptNumber(message, None)
  \/ /\ KeyCalled
     /\ \E ciphertext \in FrameNumbers : DecryptNumber(ciphertext, None)
  \/ /\ KeyCalled
     /\ KeySizeUpTo(MinKeySize - 1)
     /\ \E message \in FrameTexts, stream \in FrameStreams :
          EncryptText(message, stream)
  \/ /\ KeySizeUpTo(MaxDecryptedKeySize)
     /\ DecryptText(0)
  \/ /\ KeyCalled
     /\ KeySizeUpTo(MinKeySize - 1)
     /\ \E message \in FrameTexts, stream \in FrameStreams :
          EncryptLongText(message, stream)
  \/ /\ KeySizeUpTo(MaxDecryptedKeySize)
     /\ DecryptLongText
  \/ /\ KeyCalled
     /\ KeySizeUpTo(MinKeySize - 1)
     /\ \E hash_algorithm \in {"sha256", "md5"} :
          SignMessage(SignedText, hash_algorithm)
  \/ /\ Holds("sign_message")
     /\ \E message \in {SignedText, <<97>>} : VerifyHeld(message, "sha256")
  \/ /\ KeyCalled
     /\ \E signature \in RawSignatures, hash_algorithm \in {"sha256", "md5"} :
          VerifySignature(SignedText, signature, hash_algorithm, None)

SpecFrame == InitSig /\ [][NextFrame]_vars

CryptoOps ==
  {"encrypt_number", "decrypt_number", "encrypt_text", "decrypt_text",
   "encrypt_long_text", "decrypt_long_text", "sign_message",
   "verify_signature", "get_key_info"}

\* C21: a step made by encrypt_number, decrypt_number, encrypt_text,
\* decrypt_text, encrypt_long_text, decrypt_long_text, sign_message,
\* verify_signature or get_key_info, whether it returned or raised, leaves
\* the loaded key pair as it was, and every step, those of key generation
\* and of the key loads included, leaves the session id as it was.
C21_KeyAndSessionKept ==
  [][/\ call'.op \in CryptoOps => key_pair' = key_pair
     /\ session_id' = session_id]_vars

\* after a key pair was generated and the 343-bit pair loaded over it, a
\* message was signed and its signature verified: the pair is still loaded
\* and the session id is the one of the construction
C21_Witness ==
  /\ call.op = "verify_signature"
  /\ call.source # None
  /\ call.result = Ok(TRUE)
  /\ random_state.seed = Some(Seed)
  /\ key_pair # None
  /\ key_size(key_pair[1]) = 343
  /\ key_pair[1].private_key # None
  /\ session_id = "3f9a"

-----------------------------------------------------------------------------
(* Functions called on their own: one call of one function.                *)
(*                                                                         *)
(* is_carmichael_number(n) is called on the numbers around 561, on         *)
(* Carmichael numbers and on other products of small primes.               *)

MinCarmichaelCandidate == 556
MaxCarmichaelCandidate == 566
CarmichaelCandidates ==
  (MinCarmichaelCandidate..MaxCarmichaelCandidate)
    \cup {1001, 1105, 1309, 1729, 2465, 2821, 3553}

IsCarmichaelNumber(n, source) ==
  /\ call.op = "new"
  /\ call' = [op |-> "is_carmichael_number", n |-> n, source |-> source,
              result |-> is_carmichael_number(n, source)]
  /\ UNCHANGED <<key_pair, session_id, held, elsewhere>>

\* the prime factors of n
PrimeFactors(n) ==
  {p \in 2..n : n % p = 0 /\ \A k \in 2..(p - 1) : p % k # 0}

\* n is composite, square-free, has at least 3 prime factors, and p - 1
\* divides n - 1 for each of them
Carmichael(n) ==
  /\ n \notin PrimeFactors(n)
  /\ \A p \in PrimeFactors(n) : n % (p * p) # 0
  /\ Cardinality(PrimeFactors(n)) >= 3
  /\ \A p \in PrimeFactors(n) : (n - 1) % (p - 1) = 0

\* C11: is_carmichael_number(561) is True, is_carmichael_number(562) is
\* False, and for every n of the range the result is True exactly when n is
\* composite, square-free, has at least 3 prime factors and satisfies
\* (n - 1) mod (p - 1) = 0 for each prime factor p, whatever bases are drawn.
C11_CarmichaelDecided ==
  call.op = "is_carmichael_number" =>
    /\ call.n = 561 => call.result = TRUE
    /\ call.n = 562 => call.result = FALSE
    /\ call.result = Carmichael(call.n)

\* find_public_exponent(phi_n) is called on the small phi_n and on multiples
\* of the products of the preferred exponents.

MaxPhi == 80
MaxPhiMultiple == 12

\* 65537, 65537 * 17, 65537 * 17 * 257 and 65537 * 17 * 257 * 3
PreferredProducts == {65537, 1114129, 286331153, 858993459}

PhiValues ==
  {IntToBig(phi_n) : phi_n \in 1..MaxPhi}
    \cup {BigMul(IntToBig(k), IntToBig(product)) :
            k \in 1..MaxPhiMultiple, product \in PreferredProducts}

FindPublicExponent(phi_n) ==
  /\ call.op = "new"
  /\ call' = [op |-> "find_public_exponent", phi_n |-> phi_n,
              result |-> find_public_exponent(phi_n)]
  /\ UNCHANGED <<key_pair, session_id, held, elsewhere>>

\* e, 3 <= e <= 65537 < 257 * 257, has no divisor above 1 in common with phi_n
Coprime(e, phi_n) ==
  LET none(r) ==
        /\ r # 0
        /\ \A f \in 2..Min(e - 1, 256) :
             e % f = 0 => (r % f # 0 /\ r % (e \div f) # 0)
  IN none(BigToInt(BigMod(phi_n, IntToBig(e))))

\* C12: for phi_n >= 1 find_public_exponent returns the first of 65537, 17,
\* 257, 3 coprime to phi_n, and the smallest odd e >= 3 coprime to phi_n
\* when none of the four is; the search ends and the result is coprime to
\* phi_n in every case.
C12_FirstCoprimeExponent ==
  call.op = "find_public_exponent" =>
    LET first(e, preferred) ==
          /\ Coprime(e, call.phi_n)
          /\ \A i \in 1..4 :
               (Coprime(preferred[i], call.phi_n)
                  /\ \A j \in 1..(i - 1) : ~Coprime(preferred[j], call.phi_n))
                 => e = preferred[i]
          /\ (\A i \in 1..4 : ~Coprime(preferred[i], call.phi_n))
               => /\ e >= 3
                  /\ e % 2 = 1
                  /\ \A f \in 3..(e - 1) : f % 2 = 1 => ~Coprime(f, call.phi_n)
    IN first(BigToInt(call.result), <<65537, 17, 257, 3>>)

\* none of the four divides into phi_n = 5 * 858993459 without remainder
\* left, and neither does 5: the search returned 7
C12_Witness ==
  /\ call.op = "find_public_exponent"
  /\ call.phi_n = BigMul(<<5>>, IntToBig(858993459))
  /\ call.result = <<7>>

\* The Fibonacci numbers <<F(k), F(k + 1)>>, F(0) = F(1) = 1: the operands
\* for which Euclid's chain is longest.
Fibonacci(k) ==
  Iter(LAMBDA s, i: <<s[2], BigAdd(s[1], s[2])>>, <<<<1>>, <<1>>>>, 1, k)

MaxOperand == 10

\* modular_inverse(a, m) is called from module-level code on the small
\* operands, a of either sign, and on two pairs of Fibonacci numbers
InverseOperands ==
  {<<SInt(a < 0, IntToBig(IF a < 0 THEN -a ELSE a)), IntToBig(m)>> :
     a \in (-MaxOperand)..MaxOperand, m \in 1..MaxOperand}
    \cup {<<SPos(Fibonacci(k)[1]), Fibonacci(k)[2]>> :
            k \in {RecursionLimit - 5, RecursionLimit - 4}}

ModularInverse(a, m) ==
  /\ call.op = "new"
  /\ call' = [op |-> "modular_inverse", a |-> a, m |-> m,
              result |-> modular_inverse(a, m)]
  /\ UNCHANGED <<key_pair, session_id, held, elsewhere>>

\* C14: for m >= 1, modular_inverse(a, m) returns x with 0 <= x < m and
\* (a * x) mod m = 1 mod m when gcd(a, m) = 1, and raises the no-inverse
\* error when gcd(a, m) # 1.
C14_InverseOrNoInverse ==
  call.op = "modular_inverse" =>
    IF gcd(call.a.mag, call.m) = <<1>>
    THEN /\ call.result.ok
         /\ BigLess(call.result.val, call.m)
         /\ SDivMod(SMul(call.a, SPos(call.result.val)), SPos(call.m)).r
              = SPos(BigMod(<<1>>, call.m))
    ELSE call.result = Err("NoInverse")

MaxBase == 5
MaxExponent == 5
MaxModulus == 5

\* fast_modular_exponentiation(base, exponent, modulus) is called on a small
\* base of either sign: its `base = base % modulus` leaves a base in
\* 0..modulus - 1, from which the model's operator goes on
FastModularExponentiation(base, exponent, modulus) ==
  /\ call.op = "new"
  /\ call' = [op |-> "fast_modular_exponentiation", base |-> base,
              exponent |-> exponent, modulus |-> modulus,
              result |-> fast_modular_exponentiation(
                           IntToBig(base % modulus), IntToBig(exponent),
                           IntToBig(modulus))]
  /\ UNCHANGED <<key_pair, session_id, held, elsewhere>>

RECURSIVE Power(_, _)
Power(base, exponent) ==
  IF exponent = 0 THEN 1 ELSE base * Power(base, exponent - 1)

\* C15: for exponent >= 0 and modulus >= 1 fast_modular_exponentiation
\* returns (base ^ exponent) mod modulus, a value of 0..modulus - 1, and 0
\* whenever modulus = 1, exponent 0 included.
C15_PowerModModulus ==
  call.op = "fast_modular_exponentiation" =>
    /\ call.result = IntToBig(Power(call.base, call.exponent) % call.modulus)
    /\ BigLess(call.result, IntToBig(call.modulus))
    /\ call.modulus = 1 => call.result = <<>>

\* a negative base to an odd exponent, and exponent 0 under modulus 1
C15_Witness ==
  /\ call.op = "fast_modular_exponentiation"
  /\ \/ /\ call.base = -3
        /\ call.exponent = 5
        /\ call.modulus = 5
        /\ call.result = <<2>>
     \/ /\ call.exponent = 0
        /\ call.modulus = 1
        /\ call.result = <<>>

MaxBitLength == 10

\* what the random source of generate_random_odd may return: byte_length
\* bytes from secrets.token_bytes, a number below 2 ^ bit_length from
\* random.getrandbits
Drawn(bit_length, secure) ==
  IF secure
  THEN {random_bytes \in BytesUpTo({0, 1, 128, 255}, 2) :
          Len(random_bytes) = (bit_length + 7) \div 8}
  ELSE {0, 1, 2 ^ (bit_length - 1), 2 ^ bit_length - 2, 2 ^ bit_length - 1}

GenerateRandomOdd(bit_length, secure, drawn) ==
  /\ call.op = "new"
  /\ call' = [op |-> "generate_random_odd", bit_length |-> bit_length,
              secure |-> secure, drawn |-> drawn,
              result |-> generate_random_odd(bit_length, secure, drawn)]
  /\ UNCHANGED <<key_pair, session_id, held, elsewhere>>

\* C16: for bit_length >= 2, a multiple of 8 or not, and for either random
\* source, generate_random_odd returns an odd integer of exactly bit_length
\* bits.
C16_OddOfBitLength ==
  call.op = "generate_random_odd" =>
    /\ call.result % 2 = 1
    /\ 2 ^ (call.bit_length - 1) <= call.result
    /\ call.result < 2 ^ call.bit_length

-----------------------------------------------------------------------------
(* pollard_rho_factorization(n, max_iterations) is called on every n from  *)
(* 2 to MaxFactored with every limit up to MaxIterations.                  *)

MaxFactored == 100
MaxIterations == 5

PollardRhoFactorization(n, max_iterations) ==
  /\ call.op = "new"
  /\ call' = [op |-> "pollard_rho_factorization", n |-> n,
              max_iterations |-> max_iterations,
              returned |-> pollard_rho_factorization(n, max_iterations)]
  /\ UNCHANGED <<key_pair, session_id, held, elsewhere>>

\* C22: pollard_rho_factorization(n, max_iterations) with n >= 2 and
\* max_iterations >= 0 returns after at most max_iterations iterations of
\* its loop; what it returns divides n and is above 1 and at most n, and is
\* 2 when n is even.
C22_FactorWithinLimit ==
  (/\ call.op = "pollard_rho_factorization"
   /\ call.n >= 2
   /\ call.max_iterations >= 0)
    => /\ call.returned.steps <= call.max_iterations
       /\ call.n % call.returned.result = 0
       /\ 1 < call.returned.result
       /\ call.returned.result <= call.n
       /\ call.n % 2 = 0 => call.returned.result = 2

\* the factor 19 of 95 was found in the fourth iteration, the last allowed
C22_Witness ==
  /\ call.op = "pollard_rho_factorization"
  /\ call.n = 95
  /\ call.max_iterations = 4
  /\ call.returned = [steps |-> 4, result |-> 19]

-----------------------------------------------------------------------------
(* The one call of the functions called on their own.                      *)

NextCalls ==
  \/ \E n \in CarmichaelCandidates, source \in RandomSources :
       IsCarmichaelNumber(n, source)
  \/ \E phi_n \in PhiValues : FindPublicExponent(phi_n)
  \/ \E am \in InverseOperands : ModularInverse(am[1], am[2])
  \/ \E base \in (-MaxBase)..MaxBase, exponent \in 0..MaxExponent,
        modulus \in 1..MaxModulus :
       FastModularExponentiation(base, exponent, modulus)
  \/ \E bit_length \in 2..MaxBitLength, secure \in BOOLEAN :
       \E drawn \in Drawn(bit_length, secure) :
         GenerateRandomOdd(bit_length, secure, drawn)
  \/ \E n \in 2..MaxFactored, max_iterations \in 0..MaxIterations :
       PollardRhoFactorization(n, max_iterations)

SpecCalls == InitPad /\ [][NextCalls]_vars

====
